---- MODULE Spec2Model ----
(***************************************************************************)
(* Verification model of the Seven assistant backend                       *)
(* (seven-ai-backend): the LLM dispatcher (core/llm.py), the knowledge     *)
(* base (core/knowledge.py), the conversation-context tracker              *)
(* (core/conversation_context.py), the confidence scorer                   *)
(* (core/confidence.py), the feedback ledger (core/feedback.py), the       *)
(* SQLite store (core/memory.py) and the chat turn                         *)
(* (routes/chat_routes.py).                                                *)
(***************************************************************************)
EXTENDS Integers, Sequences, FiniteSets, TLC

VARIABLES
    llm_pc,        \* position inside LLMClient.chat
    llm_req,       \* the call in flight: provider hint and environment
    llm_calls,     \* backends invoked during the call, in order
    llm_ret,       \* what chat returned or raised
    kb_available,      \* KnowledgeBase.is_available(): model and index set
    knowledge_entries, \* KnowledgeBase.knowledge_entries
    index,             \* the vectors of the FAISS index, in insertion order
    kb_ret,            \* the last knowledge-base call and what it returned
    kb_deleted,        \* ids deleted and not added again since
    kb_task,           \* the knowledge requests in progress, by task
    loop_owner,        \* the task running on the event loop, 0 for none
    knowledge_file,    \* data/knowledge.json: the entries as JSON
    index_file,        \* data/knowledge.index: the saved FAISS index
    learning_insights, \* rows of the learning_insights table, by row id
    fb_ret,            \* the last feedback call and what it returned
    ctx_pc,            \* position of the chat turn: "idle", "reset", "loaded"
    ctx_msg,           \* request.message of the turn in flight
    current_topic,     \* ConversationContext.current_topic
    current_topics,    \* ConversationContext.current_topics (recent ring)
    topic_history,     \* ConversationContext.topic_history
    ctx_saved,         \* the session's row of conversation_context
    ctx_clock,         \* messages classified so far; also the time
    ctx_log,           \* messages classified since the last No-Topic
    ctx_prompt,        \* context_summary and transition_prompt of the turn in progress
    aq_call,           \* analyze_query: the query and what detect_intent gave
    aq_ret,            \* analyze_query: the analysis returned
    db_now,            \* CURRENT_TIMESTAMP of the database, in seconds
    uuids,             \* session ids issued by uuid4 so far
    chat_sessions,     \* rows of the chat_sessions table
    messages,          \* rows of the messages table, in rowid order
    message_seq,       \* AUTOINCREMENT counter of the messages table
    conversation_context, \* rows of the conversation_context table
    user_memory,       \* rows of the user_memory table
    mem_ret,           \* the last MemoryManager call and what it returned
    turn_pc,           \* position of the chat route in the turn
    turn_count,        \* turns submitted so far
    turn_req,          \* the request: session id, if any, and message
    turn_session,      \* request.session_id once the session is settled
    turn_before,       \* messages, uuids and context rows when the turn was submitted
    turn_reply,        \* raw_message, the text the backend returned
    turn_parsed,       \* assistant_message and action parsed from it
    turn_resp,         \* what the caller received
    ct_task,           \* the turns in flight, by task
    ct_count,          \* number of turns started
    ct_alone,          \* each session run alone: its context and transcript
    ct_serial,         \* each session's turns applied one after the other
    rt_tracker,        \* a ConversationContext kept in memory over the turns
    rt_rows,           \* the conversation_context table of the saved tracker
    rt_flags,          \* topic_changed of the last turn, on either tracker
    rt_clock           \* turns so far; also the time

llm_vars == <<llm_pc, llm_req, llm_calls, llm_ret>>
kb_vars == <<kb_available, knowledge_entries, index, kb_ret, kb_deleted,
             kb_task, loop_owner, knowledge_file, index_file>>
fb_vars == <<learning_insights, fb_ret>>
ctx_vars == <<ctx_pc, ctx_msg, current_topic, current_topics, topic_history,
              ctx_saved, ctx_clock, ctx_log, ctx_prompt>>
aq_vars == <<aq_call, aq_ret>>
mem_vars == <<db_now, uuids, chat_sessions, messages, message_seq,
              conversation_context, user_memory, mem_ret>>
turn_vars == <<turn_pc, turn_count, turn_req, turn_session, turn_before,
               turn_reply, turn_parsed, turn_resp>>
ct_vars == <<ct_task, ct_count, ct_alone, ct_serial>>
rt_vars == <<rt_tracker, rt_rows, rt_flags, rt_clock>>

Range(s) == {s[i] : i \in DOMAIN s}

(***************************************************************************)
(* llm.py : LLMClient                                                      *)
(***************************************************************************)
NoReq == [hint |-> "none", groq_available |-> FALSE, ollama_available |-> FALSE,
          ollama_healthy |-> FALSE]
NoRet == [ok |-> FALSE, provider |-> "none", error |-> "none"]

ProviderHints == {"auto", "groq", "ollama", "gemini"}

\* Lower-cased texts of the exceptions the Groq request can raise:
\* asyncio.TimeoutError has an empty text, the client library reports
\* "request timed out." and "connection error.", an API rejection reports
\* its status.
GroqErrorTexts == {"", "request timed out.", "connection error.",
                   "error code: 401"}
\* str(e).lower() of the AttributeError raised when groq_client is None.
NoClientText == "'nonetype' object has no attribute 'chat'"
GroqTimeoutTexts == {"", "request timed out."}
GroqOutcomes == {"ok"} \cup GroqErrorTexts

\* any(keyword in error_msg for keyword in ["connection", "timeout",
\* "network", "unreachable", "refused", "failed to resolve", "offline"]),
\* tabulated over GroqErrorTexts ("timed out" does not contain "timeout").
is_offline(error_msg) == error_msg \in {"connection error."}

\* The except clause of chat: fall back only in auto mode.
ChatFallback_NoFailover(auto_mode, ollama_available) == FALSE

ChatFallback(auto_mode, ollama_available) == auto_mode /\ ollama_available

\* The except clause of _chat_groq.
GroqFallback(fallback_to_ollama, error_msg, ollama_available) ==
    fallback_to_ollama /\ is_offline(error_msg) /\ ollama_available

\* Auto-detection that routes to ollama without asking for its availability.
SelectProvider_NoCheck(hint, groq_available, ollama_available) ==
    IF hint = "auto"
    THEN IF groq_available THEN "groq" ELSE "ollama"
    ELSE hint

\* Provider selection of chat: the provider routed to, or "raise".
SelectProvider(hint, groq_available, ollama_available) ==
    IF hint = "auto"
    THEN IF groq_available THEN "groq"
         ELSE IF ollama_available THEN "ollama" ELSE "raise"
    ELSE hint

Success(p) == [ok |-> TRUE, provider |-> p, error |-> "none"]
Failure(e) == [ok |-> FALSE, provider |-> "none", error |-> e]

LLMInit ==
    /\ llm_pc = "idle"
    /\ llm_req = NoReq
    /\ llm_calls = <<>>
    /\ llm_ret = NoRet

\* chat(messages, provider): auto-detection and routing up to the first
\* backend call.
ChatStart(hint, ga, oa, oh) ==
    /\ UNCHANGED <<kb_vars, fb_vars, ctx_vars, aq_vars, mem_vars, turn_vars, ct_vars, rt_vars>>
    /\ llm_pc = "idle"
    /\ llm_req' = [hint |-> hint, groq_available |-> ga,
                   ollama_available |-> oa, ollama_healthy |-> oh]
    /\ llm_calls' = <<>>
    /\ LET provider == SelectProvider(hint, ga, oa) IN
         CASE provider = "raise" ->
                /\ llm_pc' = "done"
                /\ llm_ret' = Failure("No LLM provider available")
           [] provider = "groq" ->
                /\ llm_pc' = "groq"
                /\ llm_ret' = NoRet
           [] provider = "ollama" ->
                /\ llm_pc' = "ollama_direct"
                /\ llm_ret' = NoRet
           [] OTHER ->
                /\ llm_pc' = "done"
                /\ llm_ret' = Failure("Unknown provider")

\* _chat_groq(..., fallback_to_ollama=True) and the handling of its failure.
\* Without a client the request raises before reaching the network.
ChatGroq(outcome) ==
    /\ UNCHANGED <<kb_vars, fb_vars, ctx_vars, aq_vars, mem_vars, turn_vars, ct_vars, rt_vars>>
    /\ llm_pc = "groq"
    /\ llm_req.groq_available <=> outcome # NoClientText
    /\ llm_calls' = IF llm_req.groq_available
                    THEN Append(llm_calls, [backend |-> "groq", outcome |-> outcome])
                    ELSE llm_calls
    /\ UNCHANGED llm_req
    /\ IF outcome = "ok"
       THEN /\ llm_pc' = "done"
            /\ llm_ret' = Success("groq")
       ELSE IF GroqFallback(TRUE, outcome, llm_req.ollama_available)
       THEN /\ llm_pc' = "ollama_inner"
            /\ llm_ret' = NoRet
       ELSE IF ChatFallback(llm_req.hint = "auto", llm_req.ollama_available)
       THEN /\ llm_pc' = "ollama_outer"
            /\ llm_ret' = NoRet
       ELSE /\ llm_pc' = "done"
            /\ llm_ret' = Failure("Groq API error")

\* _chat_ollama, called from chat directly, from the except clause of
\* _chat_groq (inner) or from the except clause of chat (outer).
ChatOllama(ok) ==
    /\ UNCHANGED <<kb_vars, fb_vars, ctx_vars, aq_vars, mem_vars, turn_vars, ct_vars, rt_vars>>
    /\ llm_pc \in {"ollama_direct", "ollama_inner", "ollama_outer"}
    /\ llm_req.ollama_healthy => ok
    /\ llm_calls' = Append(llm_calls, [backend |-> "ollama",
                                        outcome |-> IF ok THEN "ok" ELSE "error"])
    /\ UNCHANGED llm_req
    /\ IF ok
       THEN /\ llm_pc' = "done"
            /\ llm_ret' = Success("ollama")
       ELSE IF llm_pc = "ollama_inner"
               /\ ChatFallback(llm_req.hint = "auto", llm_req.ollama_available)
       THEN /\ llm_pc' = "ollama_outer"
            /\ llm_ret' = NoRet
       ELSE /\ llm_pc' = "done"
            /\ llm_ret' = Failure("Ollama error")

\* The caller takes the result; the client is ready for the next call.
ChatReturn ==
    /\ UNCHANGED <<kb_vars, fb_vars, ctx_vars, aq_vars, mem_vars, turn_vars, ct_vars, rt_vars>>
    /\ llm_pc = "done"
    /\ llm_pc' = "idle"
    /\ UNCHANGED <<llm_req, llm_calls, llm_ret>>

LLMNext ==
    \/ \E hint \in ProviderHints, ga, oa, oh \in BOOLEAN :
          ChatStart(hint, ga, oa, oh)
    \/ \E outcome \in GroqOutcomes \cup {NoClientText} : ChatGroq(outcome)
    \/ \E ok \in BOOLEAN : ChatOllama(ok)
    \/ ChatReturn


(***************************************************************************)
(* knowledge.py : KnowledgeBase                                            *)
(***************************************************************************)
MaxContent == 3
Contents == 1..MaxContent          \* the texts added and queried
MaxVectors == 4                    \* cap on the vectors the index may hold

\* _generate_id: a digest of the content, distinct for distinct contents.
_generate_id(content) == <<"md5", content>>
EntryIds == {_generate_id(c) : c \in Contents}

\* model.encode: the embedding of a text, here a point on a line.
encode(text) == 10 + text

\* IndexFlatL2 reports squared L2 distances.
L2(u, v) == (u - v) * (u - v)

TopKs == {1, 3}                    \* top_k; 3 is the default
MinSimilarities == {<<1, 2>>, <<1, 10>>} \* min_similarity as a fraction; 1/2 is the default

Min(a, b) == IF a < b THEN a ELSE b

KbNoRet == [op |-> "none", arg |-> 0, status |-> "none", entries |-> <<>>]
KbRet(op, arg, status, entries) ==
    [op |-> op, arg |-> arg, status |-> status, entries |-> entries]

\* next((e for e in knowledge_entries if e['id'] == entry_id), None),
\* as the sequence holding the first match or nothing.
existing_NoCheck(entries, entry_id) == <<>>

existing(entries, entry_id) ==
    LET hits == {i \in DOMAIN entries : entries[i].id = entry_id} IN
    IF hits = {} THEN <<>>
    ELSE <<entries[CHOOSE i \in hits : \A j \in hits : i <= j]>>

\* [e for e in knowledge_entries if e['id'] != entry_id]
without_KeepAll(entries, entry_id) == entries

without(entries, entry_id) ==
    SelectSeq(entries, LAMBDA e : e.id # entry_id)

\* _reindex_all: returns early when there is nothing to index, leaving the
\* index as it was; otherwise rebuilds it from the entries.
_reindex_all(entries, old_index) ==
    IF Len(entries) = 0 THEN old_index
    ELSE [i \in 1..Len(entries) |-> encode(entries[i].content)]

\* index.search(query, k): the positions of the k nearest vectors, nearest
\* first (ties by position), 0 where the index has fewer than k vectors.
search(vectors, q, k) ==
    LET before(i, j) == \/ L2(vectors[i], q) < L2(vectors[j], q)
                        \/ (L2(vectors[i], q) = L2(vectors[j], q) /\ i < j)
        place(i) == 1 + Cardinality({j \in DOMAIN vectors : before(j, i)})
    IN [r \in 1..k |->
          IF r <= Len(vectors)
          THEN CHOOSE i \in DOMAIN vectors : place(i) = r
          ELSE 0]

\* The loop of query_knowledge over the search result.
query_results(entries, vectors, text, top_k, min_similarity) ==
    LET q == encode(text)
        k == Min(top_k, Len(entries))
        found == search(vectors, q, k)
        hit(r) == /\ found[r] >= 1 /\ found[r] <= Len(entries)
                  \* 1.0 / (1.0 + distance) >= min_similarity
                  /\ min_similarity[2] >=
                       min_similarity[1] * (1 + L2(vectors[found[r]], q))
        row(r) == IF hit(r)
                  THEN [id |-> entries[found[r]].id,
                        content |-> entries[found[r]].content,
                        similarity |-> <<1, 1 + L2(vectors[found[r]], q)>>,
                        rank |-> r]
                  ELSE [id |-> <<"none", 0>>, content |-> 0,
                        similarity |-> <<0, 1>>, rank |-> 0]
    IN SelectSeq([r \in 1..k |-> row(r)], LAMBDA x : x.rank # 0)

HasContent(entries, c) == \E i \in DOMAIN entries : entries[i].content = c

\* The requests that can be in progress at the same time.
Tasks == {1, 2}
NoTask == [op |-> "none", arg |-> 0, pc |-> "idle"]

\* json.dump(self.knowledge_entries, f) and json.load(f)
json_dump(entries) == <<"json", entries>>
json_load(text) == text[2]

\* _save_knowledge: knowledge.json holds the entries as JSON.
_save_knowledge(entries) == json_dump(entries)

\* No knowledge.index in the data directory.
NoIndexFile == [exists |-> FALSE, vectors |-> <<>>]

\* _save_index: faiss.write_index(self.index, self.index_file)
_save_index(vectors) == [exists |-> TRUE, vectors |-> vectors]

\* The index file after _reindex_all: saved when the index was rebuilt,
\* untouched when _reindex_all returned early.
_reindex_all_file(entries, old_file) ==
    IF Len(entries) = 0 THEN old_file
    ELSE _save_index(_reindex_all(entries, <<>>))

\* _load_or_create_index: the entries come from knowledge.json; the index
\* is read from knowledge.index when the file exists and there are entries,
\* otherwise _create_new_index makes an empty one and, when there are
\* entries, _reindex_all fills and saves it.
_load_or_create_index(entries_file, vectors_file) ==
    LET entries == json_load(entries_file) IN
    IF vectors_file.exists /\ Len(entries) > 0
    THEN [knowledge_entries |-> entries,
          index |-> vectors_file.vectors,
          index_file |-> vectors_file]
    ELSE [knowledge_entries |-> entries,
          index |-> _reindex_all(entries, <<>>),
          index_file |-> _reindex_all_file(entries, vectors_file)]

\* The knowledge base constructed on an empty data directory: knowledge.json
\* is written at once, knowledge.index with the first save of the index.
\* (Without the libraries no file is written, and none is ever read.)
KBInit ==
    /\ kb_task = [t \in Tasks |-> NoTask]
    /\ loop_owner = 0
    /\ kb_available \in BOOLEAN
    /\ knowledge_entries = <<>>
    /\ index = <<>>
    /\ kb_ret = KbNoRet
    /\ kb_deleted = {}
    /\ knowledge_file = _save_knowledge(<<>>)
    /\ index_file = NoIndexFile

add_knowledge(content) ==
    /\ UNCHANGED <<llm_vars, fb_vars, ctx_vars, aq_vars, mem_vars, turn_vars, ct_vars, rt_vars>>
    /\ UNCHANGED <<kb_task, loop_owner>>
    /\ HasContent(knowledge_entries, content) \/ Len(index) < MaxVectors
    /\ LET entry_id == _generate_id(content)
           found == existing(knowledge_entries, entry_id)
           entry == [id |-> entry_id, content |-> content]
       IN
       IF ~kb_available
       THEN /\ kb_ret' = KbRet("add", content, "raise", <<>>)
            /\ UNCHANGED <<kb_available, knowledge_entries, index, kb_deleted>>
            /\ UNCHANGED <<knowledge_file, index_file>>
       ELSE IF found # <<>>
       THEN /\ kb_ret' = KbRet("add", content, "exists", found)
            /\ UNCHANGED <<kb_available, knowledge_entries, index, kb_deleted>>
            /\ UNCHANGED <<knowledge_file, index_file>>
       ELSE /\ knowledge_entries' = Append(knowledge_entries, entry)
            /\ index' = Append(index, encode(content))
            /\ knowledge_file' = _save_knowledge(knowledge_entries')
            /\ index_file' = _save_index(index')
            /\ kb_ret' = KbRet("add", content, "added", <<entry>>)
            /\ kb_deleted' = kb_deleted \ {entry_id}
            /\ UNCHANGED kb_available

\* What query_knowledge returns in the current state.
query_return(text, top_k, min_similarity) ==
    IF ~kb_available \/ Len(knowledge_entries) = 0
    THEN <<>>
    ELSE query_results(knowledge_entries, index, text, top_k, min_similarity)

query_knowledge(text, top_k, min_similarity) ==
    /\ UNCHANGED <<llm_vars, fb_vars, ctx_vars, aq_vars, mem_vars, turn_vars, ct_vars, rt_vars>>
    /\ UNCHANGED <<kb_task, loop_owner>>
    /\ kb_ret' = KbRet("query", text, "ok",
                       query_return(text, top_k, min_similarity))
    /\ UNCHANGED <<kb_available, knowledge_entries, index, kb_deleted>>
    /\ UNCHANGED <<knowledge_file, index_file>>

delete_knowledge(entry_id) ==
    /\ UNCHANGED <<llm_vars, fb_vars, ctx_vars, aq_vars, mem_vars, turn_vars, ct_vars, rt_vars>>
    /\ UNCHANGED <<kb_task, loop_owner>>
    /\ IF ~kb_available \/ existing(knowledge_entries, entry_id) = <<>>
       THEN /\ kb_ret' = KbRet("delete", entry_id[2], "false", <<>>)
            /\ UNCHANGED <<kb_available, knowledge_entries, index, kb_deleted>>
            /\ UNCHANGED <<knowledge_file, index_file>>
       ELSE /\ knowledge_entries' = without(knowledge_entries, entry_id)
            /\ index' = _reindex_all(knowledge_entries', index)
            /\ index_file' = _reindex_all_file(knowledge_entries', index_file)
            /\ knowledge_file' = _save_knowledge(knowledge_entries')
            /\ kb_ret' = KbRet("delete", entry_id[2], "true", <<>>)
            /\ kb_deleted' = kb_deleted \cup {entry_id}
            /\ UNCHANGED kb_available

clear_all ==
    /\ UNCHANGED <<llm_vars, fb_vars, ctx_vars, aq_vars, mem_vars, turn_vars, ct_vars, rt_vars>>
    /\ UNCHANGED <<kb_task, loop_owner>>
    /\ IF ~kb_available
       THEN /\ kb_ret' = KbRet("clear", 0, "none", <<>>)
            /\ UNCHANGED <<kb_available, knowledge_entries, index, kb_deleted>>
            /\ UNCHANGED <<knowledge_file, index_file>>
       ELSE /\ knowledge_entries' = <<>>
            /\ index' = <<>>
            /\ knowledge_file' = _save_knowledge(knowledge_entries')
            /\ index_file' = _save_index(index')
            /\ kb_ret' = KbRet("clear", Len(knowledge_entries), "none", <<>>)
            /\ UNCHANGED <<kb_available, kb_deleted>>

\* The server is restarted: KnowledgeBase.__init__ on the data directory
\* the last process left.  Without the libraries nothing is loaded.
restart ==
    /\ UNCHANGED <<llm_vars, fb_vars, ctx_vars, aq_vars, mem_vars, turn_vars, ct_vars, rt_vars>>
    /\ UNCHANGED <<kb_task, loop_owner>>
    /\ kb_ret' = KbRet("restart", 0, "none", <<>>)
    /\ IF ~kb_available
       THEN UNCHANGED <<knowledge_entries, index, index_file>>
       ELSE LET loaded == _load_or_create_index(knowledge_file, index_file) IN
            /\ knowledge_entries' = loaded.knowledge_entries
            /\ index' = loaded.index
            /\ index_file' = loaded.index_file
    /\ UNCHANGED <<kb_available, kb_deleted, knowledge_file>>

KBNext ==
    \/ \E c \in Contents : add_knowledge(c)
    \/ \E c \in Contents, k \in TopKs, m \in MinSimilarities :
          query_knowledge(c, k, m)
    \/ \E id \in EntryIds : delete_knowledge(id)
    \/ clear_all
    \/ restart

\* ---------------------------------------------------------------------
\* The same operations as requests on the server's event loop, a writer
\* taking three steps: the change of knowledge_entries, the change of the
\* index, the saves to disk.
\* ---------------------------------------------------------------------

\* Handlers that run in worker threads: any task may take a step.
event_loop_grants_Threaded(t) == TRUE

\* The routes are coroutines (async def) whose bodies call the knowledge
\* base without an await: a task gets the loop when no task has it and
\* keeps it until its handler returns.
event_loop_grants(t) == loop_owner \in {0, t}

WriterOps == {"add", "delete", "clear"}

\* A writer runs up to and including its first change of knowledge_entries,
\* or returns before changing anything.
WriterStart(t, op, content) ==
    /\ UNCHANGED <<llm_vars, fb_vars, ctx_vars, aq_vars, mem_vars, turn_vars, ct_vars, rt_vars>>
    /\ kb_task[t].pc = "idle"
    /\ event_loop_grants(t)
    /\ LET entry_id == _generate_id(content)
           found == existing(knowledge_entries, entry_id)
           returns(status, entries) ==
               /\ kb_ret' = KbRet(op, content, status, entries)
               /\ UNCHANGED <<knowledge_entries, kb_deleted, kb_task,
                              loop_owner>>
           modifies(entries, deleted) ==
               /\ knowledge_entries' = entries
               /\ kb_deleted' = deleted
               /\ kb_task' = [kb_task EXCEPT
                                ![t] = [op |-> op, arg |-> content,
                                        pc |-> "modified"]]
               /\ loop_owner' = t
               /\ UNCHANGED kb_ret
       IN
       CASE op = "add" ->
              /\ content \in Contents
              /\ HasContent(knowledge_entries, content)
                    \/ Len(index) < MaxVectors
              /\ IF ~kb_available THEN returns("raise", <<>>)
                 ELSE IF found # <<>> THEN returns("exists", found)
                 ELSE modifies(Append(knowledge_entries,
                                      [id |-> entry_id, content |-> content]),
                               kb_deleted \ {entry_id})
         [] op = "delete" ->
              /\ content \in Contents
              /\ IF ~kb_available \/ found = <<>> THEN returns("false", <<>>)
                 ELSE modifies(without(knowledge_entries, entry_id),
                               kb_deleted \cup {entry_id})
         [] op = "clear" ->
              /\ content = 0
              /\ IF ~kb_available THEN returns("none", <<>>)
                 ELSE modifies(<<>>, kb_deleted)
    /\ UNCHANGED <<kb_available, index, knowledge_file, index_file>>

\* index.add (add), _reindex_all (delete), _create_new_index (clear)
WriterIndex(t) ==
    /\ UNCHANGED <<llm_vars, fb_vars, ctx_vars, aq_vars, mem_vars, turn_vars, ct_vars, rt_vars>>
    /\ kb_task[t].pc = "modified"
    /\ event_loop_grants(t)
    /\ index' = CASE kb_task[t].op = "add" ->
                       Append(index, encode(kb_task[t].arg))
                  [] kb_task[t].op = "delete" ->
                       _reindex_all(knowledge_entries, index)
                  [] kb_task[t].op = "clear" -> <<>>
    /\ index_file' = IF kb_task[t].op = "delete"
                     THEN _reindex_all_file(knowledge_entries, index_file)
                     ELSE index_file
    /\ kb_task' = [kb_task EXCEPT ![t].pc = "indexed"]
    /\ UNCHANGED <<kb_available, knowledge_entries, kb_ret, kb_deleted,
                   loop_owner, knowledge_file>>

\* _save_knowledge and _save_index, then the handler returns
WriterPersist(t) ==
    /\ UNCHANGED <<llm_vars, fb_vars, ctx_vars, aq_vars, mem_vars, turn_vars, ct_vars, rt_vars>>
    /\ kb_task[t].pc = "indexed"
    /\ event_loop_grants(t)
    /\ kb_ret' = KbRet(kb_task[t].op, kb_task[t].arg,
                       CASE kb_task[t].op = "add" -> "added"
                         [] kb_task[t].op = "delete" -> "true"
                         [] kb_task[t].op = "clear" -> "none",
                       <<>>)
    /\ kb_task' = [kb_task EXCEPT ![t] = NoTask]
    /\ loop_owner' = 0
    /\ knowledge_file' = _save_knowledge(knowledge_entries)
    /\ index_file' = IF kb_task[t].op = "delete" THEN index_file
                     ELSE _save_index(index)
    /\ UNCHANGED <<kb_available, knowledge_entries, index, kb_deleted>>

\* A query request: one step, the handler has no await either.
QueryRequest(t, text, top_k, min_similarity) ==
    /\ UNCHANGED <<llm_vars, fb_vars, ctx_vars, aq_vars, mem_vars, turn_vars, ct_vars, rt_vars>>
    /\ kb_task[t].pc = "idle"
    /\ event_loop_grants(t)
    /\ kb_ret' = KbRet("query", text, "ok",
                       query_return(text, top_k, min_similarity))
    /\ UNCHANGED <<kb_available, knowledge_entries, index, kb_deleted,
                   kb_task, loop_owner, knowledge_file, index_file>>

KBCNext ==
    \/ \E t \in Tasks, op \in WriterOps, c \in Contents \cup {0} :
          WriterStart(t, op, c)
    \/ \E t \in Tasks : WriterIndex(t)
    \/ \E t \in Tasks : WriterPersist(t)
    \/ \E t \in Tasks, c \in Contents, k \in TopKs, m \in MinSimilarities :
          QueryRequest(t, c, k, m)

(***************************************************************************)
(* feedback.py : FeedbackManager, against memory.py : MemoryManager        *)
(***************************************************************************)
MaxFrequency == 3                  \* cap on an insight's frequency
MaxInsights == 2                   \* cap on the rows of learning_insights

\* The users giving feedback: the chat route's default user and another one.
Users == {"seven_user", "guest"}

\* User messages and corrections, as sequences of characters.
UserMessages == {<<"a">>, <<"a", "b">>, <<"b", "a">>, <<"c">>}
Corrections == {<<"x">>, <<"y">>}

\* s[:n]
Prefix(s, n) == SubSeq(s, 1, Min(n, Len(s)))

\* pattern LIKE '%' || needle || '%'
Like(pattern, needle) ==
    \E k \in 0..(Len(pattern) - Len(needle)) :
        SubSeq(pattern, k + 1, k + Len(needle)) = needle

\* The methods MemoryManager defines.
MemoryManagerMethods ==
    {"_get_connection", "create_user", "get_user_memory",
     "update_user_memory", "create_chat_session", "save_message",
     "get_session_messages", "get_user_sessions", "clear_user_memory",
     "delete_session", "save_conversation_context",
     "get_conversation_context", "clear_conversation_context"}

\* get_learning_insights(user_id, min_frequency): the row ids selected.
get_learning_insights(user_id, min_frequency) ==
    {i \in DOMAIN learning_insights :
        /\ learning_insights[i].user_id = user_id
        /\ learning_insights[i].frequency >= min_frequency}

\* A lookup that forgets the user_id condition.
matching_insights_AnyUser(user_id, user_message) ==
    {i \in DOMAIN learning_insights :
        Like(learning_insights[i].pattern, Prefix(user_message, 50))}

\* SELECT id, frequency FROM learning_insights WHERE user_id = ? AND
\* insight_type = 'correction' AND pattern LIKE ? (every row of the model
\* is a correction insight).
matching_insights(user_id, user_message) ==
    {i \in DOMAIN learning_insights :
        /\ learning_insights[i].user_id = user_id
        /\ Like(learning_insights[i].pattern, Prefix(user_message, 50))}

\* The fact apply_insights_to_memory synthesizes for an insight.
fact(insight) ==
    <<"correction_learned", Prefix(insight.pattern, 100),
      Prefix(insight.correction, 100)>>

NoArgs == <<>>
NoInsights == <<>>
FbNoRet == [op |-> "none", args |-> NoArgs, status |-> "none",
            applied_count |-> 0, context |-> NoInsights]

\* An ORDER BY that sorts on nothing.
order_key_None(row) == 0

\* ORDER BY frequency DESC (the secondary key last_seen DESC is not a column
\* of the model: rows of equal frequency come in any order).
order_key(row) == row.frequency

\* The orders in which SELECT ... ORDER BY can deliver the rows ids.
RECURSIVE frequency_desc_orders(_)
frequency_desc_orders(ids) ==
    IF ids = {}
    THEN {<<>>}
    ELSE UNION {{<<i>> \o rest : rest \in frequency_desc_orders(ids \ {i})} :
                  i \in {i \in ids :
                           \A j \in ids :
                              order_key(learning_insights[i]) >=
                                 order_key(learning_insights[j])}}

\* insights[:5]
RenderLimit == 5

\* One "[Correction #i] Pattern: ... Correct response should be: ...
\* (Seen n times)" paragraph of the rendered context.
render_insight(insight) ==
    [pattern |-> Prefix(insight.pattern, 80),
     correction |-> Prefix(insight.correction, 100),
     frequency |-> insight.frequency]

FBInit ==
    /\ learning_insights = <<>>
    /\ fb_ret = FbNoRet

\* add_feedback(feedback_type='correction') -> _process_correction
_process_correction(user_id, user_message, correction) ==
    /\ UNCHANGED <<llm_vars, kb_vars, ctx_vars, aq_vars, mem_vars, turn_vars, ct_vars, rt_vars>>
    /\ LET hits == matching_insights(user_id, user_message)
       IN
       /\ IF hits # {}
          THEN LET id == CHOOSE i \in hits : \A j \in hits : i <= j IN
               /\ learning_insights[id].frequency < MaxFrequency
               /\ learning_insights' =
                    [learning_insights EXCEPT
                       ![id].frequency = @ + 1,
                       ![id].correction = correction]
          ELSE /\ Len(learning_insights) < MaxInsights
               /\ learning_insights' =
                    Append(learning_insights,
                           [user_id |-> user_id, pattern |-> user_message,
                            correction |-> correction,
                            frequency |-> 1, applied_to_memory |-> FALSE])
       /\ fb_ret' = [op |-> "record",
                     args |-> <<user_id, user_message, correction>>,
                     status |-> "ok", applied_count |-> 0,
                     context |-> NoInsights]

\* apply_insights_to_memory(user_id, memory_manager): the first insight that
\* is not yet applied calls memory_manager.add_memory, a method MemoryManager
\* does not define; the AttributeError leaves the loop before the insight is
\* marked and propagates to the caller.
apply_insights_to_memory(user_id) ==
    /\ UNCHANGED <<llm_vars, kb_vars, ctx_vars, aq_vars, mem_vars, turn_vars, ct_vars, rt_vars>>
    /\ LET insights == get_learning_insights(user_id, 2)
           pending == {i \in insights : ~learning_insights[i].applied_to_memory}
       IN
       /\ pending # {} => "add_memory" \notin MemoryManagerMethods
       /\ fb_ret' = IF pending = {}
                    THEN [op |-> "apply", args |-> <<user_id>>,
                          status |-> "ok", applied_count |-> 0,
                          context |-> NoInsights]
                    ELSE [op |-> "apply", args |-> <<user_id>>,
                          status |-> "AttributeError", applied_count |-> 0,
                          context |-> NoInsights]
       /\ UNCHANGED learning_insights

\* get_correction_context(user_id): read-only rendering of insights[:5] of
\* get_learning_insights(user_id, min_frequency=1).
get_correction_context(user_id) ==
    /\ UNCHANGED <<llm_vars, kb_vars, ctx_vars, aq_vars, mem_vars, turn_vars, ct_vars, rt_vars>>
    /\ \E insights \in frequency_desc_orders(get_learning_insights(user_id, 1)) :
          fb_ret' = [op |-> "context", args |-> <<user_id>>, status |-> "ok",
                     applied_count |-> 0,
                     context |->
                        [k \in 1..Min(RenderLimit, Len(insights)) |->
                           render_insight(learning_insights[insights[k]])]]
    /\ UNCHANGED learning_insights

FBNext ==
    \/ \E u \in Users, m \in UserMessages, c \in Corrections :
          _process_correction(u, m, c)
    \/ \E u \in Users : apply_insights_to_memory(u)
    \/ \E u \in Users : get_correction_context(u)

\* Insight tables long enough for insights[:5] to cut: up to RenderLimit + 1
\* rows with distinct patterns and any frequencies, the last row possibly
\* the other user's and the first row possibly applied to memory already.
TablePatterns ==
    <<(<<"a">>), (<<"b">>), (<<"c">>), (<<"a", "b">>), (<<"b", "a">>),
      (<<"c", "a">>)>>

InsightTables ==
    UNION {{[i \in 1..n |->
               [user_id |-> IF i = g THEN "guest" ELSE "seven_user",
                pattern |-> TablePatterns[i],
                correction |-> <<"x">>,
                frequency |-> f[i],
                applied_to_memory |-> (i = a)]] :
              f \in [1..n -> 1..MaxFrequency], g \in {0, n}, a \in {0, 1}} :
             n \in 0..(RenderLimit + 1)}

\* The feedback store after any number of recorded corrections.
TableInit ==
    /\ learning_insights \in InsightTables
    /\ fb_ret = FbNoRet

\* One rendering of the table per behaviour.
RenderNext ==
    /\ fb_ret = FbNoRet
    /\ \E u \in Users : get_correction_context(u)

(***************************************************************************)
(* conversation_context.py : ConversationTopic, ConversationContext, as    *)
(* driven by the chat turn of routes/chat_routes.py                        *)
(***************************************************************************)
MaxMessages == 6                   \* cap on the messages classified
MaxTopicMessages == 5              \* max_messages of add_message
MaxRecentTopics == 3               \* "Keep only last 3 topics"

\* Confidences are counted in units of 1/ConfUnit, so that halving stays
\* exact, as it is for the floats of the program.
ConfUnit == 2 ^ MaxMessages
Confidences == {ConfUnit \div 2, ConfUnit}      \* 0.5 and 1.0
TopicLabels == {"weather", "general_conversation"}

NoTopic == [topic |-> "none"]
NoContext == [saved |-> FALSE]
NoMessage == <<>>

\* The messages of a turn, as sequences of words: one without a reset
\* phrase, one with a phrase in mixed case, one with the words of a phrase
\* apart from each other.
TurnMessages == {<<"is", "it", "sunny">>,
                 <<"New", "TOPIC", "please">>,
                 <<"new", "sunny", "topic">>}

\* message.lower(), word by word
message_lower(message) ==
    [i \in DOMAIN message |->
        CASE message[i] = "New" -> "new"
          [] message[i] = "TOPIC" -> "topic"
          [] OTHER -> message[i]]

\* reset_phrases of check_for_topic_reset
reset_phrases ==
    {<<"new", "topic">>, <<"change", "topic">>, <<"different", "topic">>,
     <<"talk", "about", "something", "else">>, <<"let's", "talk", "about">>,
     <<"anyway">>, <<"by", "the", "way">>, <<"speaking", "of", "which">>,
     <<"on", "a", "different", "note">>}

\* phrase in message_lower
contains_phrase(text, phrase) ==
    \E k \in 0..(Len(text) - Len(phrase)) :
        SubSeq(text, k + 1, k + Len(phrase)) = phrase

\* A check that compares the message as typed.
check_for_topic_reset_CaseSensitive(message) ==
    \E phrase \in reset_phrases : contains_phrase(message, phrase)

\* ConversationContext.check_for_topic_reset
check_for_topic_reset(message) ==
    \E phrase \in reset_phrases :
        contains_phrase(message_lower(message), phrase)

\* s[-n:]
LastN(s, n) == IF Len(s) <= n THEN s ELSE SubSeq(s, Len(s) - n + 1, Len(s))

\* ConversationTopic(topic, keywords, messages, confidence) at time now
ConversationTopic(topic, topic_messages, confidence, now) ==
    [topic |-> topic, messages |-> topic_messages, confidence |-> confidence,
     start_time |-> now, last_updated |-> now,
     message_count |-> Len(topic_messages)]

\* ConversationTopic.add_message
add_message_NoCount(t, message, now) ==
    [t EXCEPT !.messages = LastN(Append(t.messages, message), MaxTopicMessages),
              !.last_updated = now]

add_message(t, message, now) ==
    [t EXCEPT !.messages = LastN(Append(t.messages, message), MaxTopicMessages),
              !.last_updated = now,
              !.message_count = @ + 1]

\* (self.current_topic.confidence + confidence) / 2
running_average_Latest(old, new) == new

running_average(old, new) == (old + new) \div 2

\* append to current_topics and keep the last 3
push_recent_KeepFirst(ring, t) ==
    IF Len(ring) < MaxRecentTopics THEN Append(ring, t) ELSE ring

push_recent(ring, t) == LastN(Append(ring, t), MaxRecentTopics)

\* datetime.isoformat and datetime.fromisoformat
isoformat(time) == <<"iso", time>>
fromisoformat(text) == text[2]

\* ConversationTopic.to_dict / from_dict
topic_to_dict(t) ==
    [d_topic |-> t.topic, d_messages |-> t.messages,
     d_confidence |-> t.confidence,
     d_start_time |-> isoformat(t.start_time),
     d_last_updated |-> isoformat(t.last_updated),
     d_message_count |-> t.message_count]

\* from_dict that keeps what the constructor set: the times of the restore
\* and the length of the kept messages.
topic_from_dict_AsConstructed(d, now) ==
    ConversationTopic(d.d_topic, d.d_messages, d.d_confidence, now)

topic_from_dict(d, now) ==
    [ConversationTopic(d.d_topic, d.d_messages, d.d_confidence, now)
        EXCEPT !.start_time = fromisoformat(d.d_start_time),
               !.last_updated = fromisoformat(d.d_last_updated),
               !.message_count = d.d_message_count]

\* ConversationContext.to_dict
context_to_dict(ring, cur, history) ==
    [saved |-> TRUE,
     d_current_topics |-> [i \in DOMAIN ring |-> topic_to_dict(ring[i])],
     d_current_topic |-> IF cur = NoTopic THEN NoTopic ELSE topic_to_dict(cur),
     d_topic_count |-> Len(history)]

\* ConversationContext.get_context_summary: the parts joined by " | ", the
\* empty sequence for the empty string. The keywords of the current topic
\* are left out of the model.
get_context_summary(ring, cur) ==
    IF Len(ring) = 0
    THEN <<>>
    ELSE <<[part |-> "Recent topics",
            labels |-> [i \in DOMAIN LastN(ring, 3) |-> LastN(ring, 3)[i].topic],
            message_count |-> 0]>>
         \o (IF cur # NoTopic
             THEN <<[part |-> "Current topic", labels |-> <<cur.topic>>,
                     message_count |-> cur.message_count]>>
             ELSE <<>>)

\* The empty transition prompt.
NoHint == [shifted_from |-> "", shifted_to |-> ""]

\* ConversationContext.get_transition_prompt: "Note: The conversation has
\* shifted from '...' to '...'."
get_transition_prompt(ring, cur) ==
    IF cur = NoTopic \/ Len(ring) < 2
    THEN NoHint
    ELSE LET previous_topic == ring[Len(ring) - 1] IN
         IF previous_topic.topic # cur.topic
         THEN [shifted_from |-> previous_topic.topic, shifted_to |-> cur.topic]
         ELSE NoHint

\* context_summary and transition_prompt as the turn computes them for the
\* system prompt.
NoPrompt == [computed |-> FALSE]
turn_prompt(ring, cur) ==
    [computed |-> TRUE,
     context_summary |-> get_context_summary(ring, cur),
     transition_prompt |-> get_transition_prompt(ring, cur)]

CTXInit ==
    /\ ctx_prompt = NoPrompt
    /\ ctx_pc = "idle"
    /\ ctx_msg = NoMessage
    /\ current_topic = NoTopic
    /\ current_topics = <<>>
    /\ topic_history = <<>>
    /\ ctx_saved = NoContext
    /\ ctx_clock = 0
    /\ ctx_log = <<>>

\* session_context = ConversationContext(); from_dict(saved_context); then
\* the turn evaluates check_for_topic_reset(request.message)
LoadContext(message) ==
    /\ UNCHANGED <<llm_vars, kb_vars, fb_vars, aq_vars, mem_vars, turn_vars, ct_vars, rt_vars>>
    /\ ctx_pc = "idle"
    /\ ctx_msg' = message
    /\ ctx_pc' = IF check_for_topic_reset(message) THEN "reset" ELSE "loaded"
    /\ topic_history' = <<>>
    /\ IF ctx_saved.saved
       THEN /\ current_topics' =
                 [i \in DOMAIN ctx_saved.d_current_topics |->
                    topic_from_dict(ctx_saved.d_current_topics[i], ctx_clock)]
            /\ current_topic' =
                 IF ctx_saved.d_current_topic = NoTopic THEN NoTopic
                 ELSE topic_from_dict(ctx_saved.d_current_topic, ctx_clock)
       ELSE /\ current_topics' = <<>>
            /\ current_topic' = NoTopic
    /\ ctx_prompt' = IF check_for_topic_reset(message)
                     THEN NoPrompt
                     ELSE turn_prompt(current_topics', current_topic')
    /\ UNCHANGED <<ctx_saved, ctx_clock, ctx_log>>

\* check_for_topic_reset(message) holds: reset_current_topic, then
\* clear_conversation_context; after it the turn computes its prompt
ResetCurrentTopic ==
    /\ UNCHANGED <<llm_vars, kb_vars, fb_vars, aq_vars, mem_vars, turn_vars, ct_vars, rt_vars>>
    /\ ctx_pc = "reset"
    /\ ctx_pc' = "loaded"
    /\ IF current_topic # NoTopic
       THEN /\ topic_history' = Append(topic_history, current_topic)
            /\ current_topics' = push_recent(current_topics, current_topic)
       ELSE UNCHANGED <<topic_history, current_topics>>
    /\ current_topic' = NoTopic
    /\ ctx_prompt' = turn_prompt(current_topics', current_topic')
    /\ ctx_saved' = NoContext
    /\ ctx_log' = <<>>
    /\ UNCHANGED <<ctx_msg, ctx_clock>>

\* llm_client.chat raises: the turn ends without update_context
TurnFailed ==
    /\ UNCHANGED <<llm_vars, kb_vars, fb_vars, aq_vars, mem_vars, turn_vars, ct_vars, rt_vars>>
    /\ ctx_pc = "loaded"
    /\ ctx_pc' = "idle"
    /\ ctx_msg' = NoMessage
    /\ ctx_prompt' = NoPrompt
    /\ UNCHANGED <<current_topic, current_topics, topic_history, ctx_saved,
                   ctx_clock, ctx_log>>

\* update_context(user_message, assistant_message), detect_topic having
\* returned (topic, confidence), then save_conversation_context(to_dict())
UpdateContext(topic, confidence) ==
    /\ UNCHANGED <<llm_vars, kb_vars, fb_vars, aq_vars, mem_vars, turn_vars, ct_vars, rt_vars>>
    /\ ctx_pc = "loaded"
    /\ ctx_clock < MaxMessages
    /\ ctx_clock' = ctx_clock + 1
    /\ LET user_message == ctx_clock' IN
       /\ IF current_topic = NoTopic \/ current_topic.topic # topic
          THEN /\ IF current_topic # NoTopic
                  THEN /\ topic_history' = Append(topic_history, current_topic)
                       /\ current_topics' =
                            push_recent(current_topics, current_topic)
                  ELSE UNCHANGED <<topic_history, current_topics>>
               /\ current_topic' =
                    ConversationTopic(topic, <<user_message>>, confidence,
                                      ctx_clock')
          ELSE /\ current_topic' =
                    [add_message(current_topic, user_message, ctx_clock')
                       EXCEPT !.confidence =
                                running_average(current_topic.confidence,
                                                confidence)]
               /\ UNCHANGED <<topic_history, current_topics>>
       /\ ctx_log' = Append(ctx_log, [topic |-> topic,
                                      confidence |-> confidence,
                                      message |-> user_message,
                                      topic_changed |->
                                         (\/ current_topic = NoTopic
                                          \/ current_topic.topic # topic)])
    /\ ctx_saved' = context_to_dict(current_topics', current_topic',
                                    topic_history')
    /\ ctx_pc' = "idle"
    /\ ctx_msg' = NoMessage
    /\ ctx_prompt' = NoPrompt

CTXNext ==
    \/ \E message \in TurnMessages : LoadContext(message)
    \/ ResetCurrentTopic
    \/ TurnFailed
    \/ \E topic \in TopicLabels, confidence \in Confidences :
          UpdateContext(topic, confidence)

(***************************************************************************)
(* confidence.py : ConfidenceScorer                                        *)
(***************************************************************************)
MaxWords == 3                      \* cap on the words of a query
MaxQuestionMarks == 3              \* cap on the question marks of a query

CONFIDENCE_THRESHOLD == 700        \* 0.7, in thousandths

\* A query is its words, separated by blanks, followed by question marks
\* written against the last word ("What rain??"); no words and no question
\* marks is the empty (or blank) query.
Vocabulary == {"It", "What", "rain"}
lower(word) == CASE word = "It" -> "it"
                 [] word = "What" -> "what"
                 [] OTHER -> word
Queries ==
    {[words |-> w, qmarks |-> n] :
        w \in UNION {[1..k -> Vocabulary] : k \in 0..MaxWords},
        n \in 0..MaxQuestionMarks}

\* What detect_intent can return: an intent and a confidence in thousandths.
Intents == {"unknown", "weather"}
IntentConfidences == {0, 699, 700}

\* A scorer without the empty-query branch.
is_blank_Never(query) == FALSE

\* len(query.strip()) == 0
is_blank(query) == Len(query.words) = 0 /\ query.qmarks = 0

\* len(query.split())
word_count(query) ==
    IF Len(query.words) = 0
    THEN (IF query.qmarks > 0 THEN 1 ELSE 0)
    ELSE Len(query.words)

\* "what" in query.lower()
contains_what(query) ==
    \E i \in DOMAIN query.words : lower(query.words[i]) = "what"

\* query.lower() in ["it", "that", "this", "thing", "something"]
is_vague_reference(query) ==
    /\ Len(query.words) = 1 /\ query.qmarks = 0
    /\ lower(query.words[1]) \in {"it", "that", "this", "thing", "something"}

\* The if/elif chain of analyze_query: the reasons appended.
ambiguity_reasons(query) ==
    IF is_blank(query) THEN <<"empty_query">>
    ELSE IF word_count(query) < 3 THEN <<"too_short">>
    ELSE IF contains_what(query) /\ query.qmarks = 0
         THEN <<"incomplete_question">>
    ELSE IF is_vague_reference(query) THEN <<"vague_reference">>
    ELSE IF query.qmarks > 2 THEN <<"multiple_questions">>
    ELSE <<>>

AQNoCall == [query |-> [words |-> <<>>, qmarks |-> 0], intent |-> "none",
             confidence |-> 0]
AQNoRet == [op |-> "none"]

AQInit ==
    /\ aq_call = AQNoCall
    /\ aq_ret = AQNoRet

\* analyze_query(query), detect_intent having returned (intent, confidence)
analyze_query(query, intent, confidence) ==
    /\ UNCHANGED <<llm_vars, kb_vars, fb_vars, ctx_vars, mem_vars, turn_vars, ct_vars, rt_vars>>
    /\ aq_call' = [query |-> query, intent |-> intent,
                   confidence |-> confidence]
    /\ LET is_ambiguous ==
               IF is_blank(query) THEN TRUE
               ELSE confidence < CONFIDENCE_THRESHOLD
       IN aq_ret' =
            [op |-> "analyze",
             query |-> query,
             intent |-> intent,
             confidence |-> IF is_blank(query) THEN 0 ELSE confidence,
             is_ambiguous |-> is_ambiguous,
             needs_clarification |-> is_ambiguous,
             ambiguity_reasons |-> ambiguity_reasons(query),
             threshold |-> CONFIDENCE_THRESHOLD]

\* The clarifying question for one ambiguity reason; the too_short question
\* quotes the query.
reason_question(reason, query) ==
    CASE reason = "empty_query" ->
           [text |-> "I didn't catch that. Could you please tell me what you'd like to know?",
            mention |-> AQNoCall.query]
      [] reason = "too_short" ->
           [text |-> "I see you mentioned '{query}'. Can you provide more details about what you'd like to know?",
            mention |-> query]
      [] reason = "vague_reference" ->
           [text |-> "I'm not sure what you're referring to. Could you be more specific?",
            mention |-> AQNoCall.query]
      [] reason = "multiple_questions" ->
           [text |-> "I noticed you have several questions. Which one would you like me to address first?",
            mention |-> AQNoCall.query]
      [] reason = "incomplete_question" ->
           [text |-> "I think you're asking about something, but I'm not quite sure. Could you rephrase your question?",
            mention |-> AQNoCall.query]

\* The question for an intent when no reason was reported.
intent_question(intent) ==
    [text |-> IF intent = "weather"
              THEN "I can check the weather. For which location and what timeframe?"
              ELSE "I want to help, but I need a bit more information. Can you clarify what you mean?",
     mention |-> AQNoCall.query]

\* The order in which generate_clarifying_question tests the reasons.
ReasonPriority ==
    <<"empty_query", "too_short", "vague_reference", "multiple_questions",
      "incomplete_question">>

\* The body of generate_clarifying_question once the analysis is known.
clarifying_question(query, reasons, intent) ==
    LET reported == {k \in DOMAIN ReasonPriority :
                       \E r \in DOMAIN reasons : reasons[r] = ReasonPriority[k]}
    IN IF reported = {}
       THEN intent_question(intent)
       ELSE reason_question(
               ReasonPriority[CHOOSE k \in reported : \A l \in reported : k <= l],
               query)

\* generate_clarifying_question(query, analysis=None): analyses the query
\* itself, detect_intent having returned intent; the confidence plays no
\* part in the question and is recorded as 0.
generate_clarifying_question(query, intent) ==
    /\ UNCHANGED <<llm_vars, kb_vars, fb_vars, ctx_vars, mem_vars, turn_vars, ct_vars, rt_vars>>
    /\ aq_call' = [query |-> query, intent |-> intent, confidence |-> 0]
    /\ aq_ret' = [op |-> "clarify",
                  intent |-> intent,
                  ambiguity_reasons |-> ambiguity_reasons(query),
                  question |-> clarifying_question(query,
                                                   ambiguity_reasons(query),
                                                   intent)]

AQNext ==
    \/ \E query \in Queries, intent \in Intents,
          confidence \in IntentConfidences :
          analyze_query(query, intent, confidence)
    \/ \E query \in Queries, intent \in Intents :
          generate_clarifying_question(query, intent)

(***************************************************************************)
(* memory.py : MemoryManager over the SQLite tables chat_sessions,         *)
(* messages, conversation_context and user_memory                          *)
(***************************************************************************)
MaxTime == 1                       \* cap on the database clock, in seconds
MaxSessions == 2                   \* cap on the session ids issued
MaxRows == 3                       \* cap on the rows inserted into messages

DefaultUser == "seven_user"        \* "Single user system - use hardcoded user ID"
SessionIds == 1..MaxSessions
Roles == {"user", "assistant"}
MessageContents == {"hello", "hi there"}
Limits == 0..MaxRows               \* 0 is falsy: the query gets no LIMIT
Summaries == {"", "likes tea"}
FactLists == {<<>>, <<"preferred_language: en">>}
Null == "NULL"

\* json.dumps / json.loads: the stored text is not the value
json_dumps(value) == <<"json", value>>
json_loads(text) == text[2]

\* reversed(rows)
reversed(rows) == [i \in DOMAIN rows |-> rows[Len(rows) + 1 - i]]

\* DELETE FROM table (a statement that lost its WHERE clause).
delete_where_session_All(rows, session_id) == <<>>

\* DELETE FROM table WHERE session_id = ?
delete_where_session(rows, session_id) ==
    LET keep(r) == r.session_id # session_id IN SelectSeq(rows, keep)

\* DELETE FROM user_memory WHERE user_id = ?
delete_where_user(rows, user_id) ==
    LET keep(r) == r.user_id # user_id IN SelectSeq(rows, keep)

\* SELECT ... FROM table WHERE session_id = ?, in rowid order
where_session(rows, session_id) ==
    LET hit(r) == r.session_id = session_id IN SelectSeq(rows, hit)

\* SELECT ... FROM user_memory WHERE user_id = ?, in rowid order
where_user(rows, user_id) ==
    LET hit(r) == r.user_id = user_id IN SelectSeq(rows, hit)

\* An update_user_memory that inserts without looking for the row.
upsert_memory_AlwaysInsert(rows, user_id, memory_summary, facts, now) ==
    Append(rows, [user_id |-> user_id, memory_summary |-> memory_summary,
                  facts |-> json_dumps(facts), updated_at |-> now])

\* update_user_memory: UPDATE ... WHERE user_id = ? if a row exists,
\* INSERT otherwise
upsert_memory(rows, user_id, memory_summary, facts, now) ==
    IF where_user(rows, user_id) # <<>>
    THEN [i \in DOMAIN rows |->
            IF rows[i].user_id = user_id
            THEN [rows[i] EXCEPT !.memory_summary = memory_summary,
                                 !.facts = json_dumps(facts),
                                 !.updated_at = now]
            ELSE rows[i]]
    ELSE Append(rows, [user_id |-> user_id, memory_summary |-> memory_summary,
                       facts |-> json_dumps(facts), updated_at |-> now])

\* get_user_memory: the dicts the SELECT ... ORDER BY updated_at DESC LIMIT 1
\* can produce (rows with the same updated_at come in no defined order)
get_user_memory_results(rows, user_id) ==
    LET mine == Range(where_user(rows, user_id))
        newest == {r \in mine : \A q \in mine : q.updated_at <= r.updated_at}
    IN IF mine = {}
       THEN {[memory_summary |-> "", facts |-> <<>>, updated_at |-> Null]}
       ELSE {[memory_summary |-> r.memory_summary,
              facts |-> IF r.facts = Null THEN <<>> ELSE json_loads(r.facts),
              updated_at |-> r.updated_at] : r \in newest}

\* The orders ORDER BY timestamp DESC can produce for the rows of a session:
\* rows with equal timestamps come in no defined order.
timestamp_desc_orders(rows) ==
    {o \in [DOMAIN rows -> Range(rows)] :
        /\ \A i, j \in DOMAIN rows : i # j => o[i] # o[j]
        /\ \A i, j \in DOMAIN rows : i < j => o[i].timestamp >= o[j].timestamp}

\* ... LIMIT {limit} if limit is truthy
sql_limit(rows, limit) ==
    IF limit = 0 \/ Len(rows) <= limit THEN rows ELSE SubSeq(rows, 1, limit)

\* The dict get_session_messages builds for a row
message_dict(row) ==
    [role |-> row.role, content |-> row.content, timestamp |-> row.timestamp]

MemNoRet == [op |-> "none", arg |-> <<>>, result |-> <<>>]
MemRet(op, arg, result) == [op |-> op, arg |-> arg, result |-> result]

MEMInit ==
    /\ db_now = 0
    /\ uuids = 0
    /\ chat_sessions = <<>>
    /\ messages = <<>>
    /\ message_seq = 0
    /\ conversation_context = <<>>
    /\ user_memory = <<>>
    /\ mem_ret = MemNoRet

\* A second passes on the database clock.
Tick ==
    /\ UNCHANGED <<llm_vars, kb_vars, fb_vars, ctx_vars, aq_vars, turn_vars, ct_vars, rt_vars>>
    /\ db_now < MaxTime
    /\ db_now' = db_now + 1
    /\ UNCHANGED <<uuids, chat_sessions, messages, message_seq,
                   conversation_context, user_memory, mem_ret>>

\* create_chat_session(user_id): a fresh uuid4 is the session id
create_chat_session(user_id) ==
    /\ UNCHANGED <<llm_vars, kb_vars, fb_vars, ctx_vars, aq_vars, turn_vars, ct_vars, rt_vars>>
    /\ uuids < MaxSessions
    /\ uuids' = uuids + 1
    /\ chat_sessions' = Append(chat_sessions,
                               [session_id |-> uuids', user_id |-> user_id,
                                created_at |-> db_now])
    /\ mem_ret' = MemRet("create_chat_session", <<user_id>>, uuids')
    /\ UNCHANGED <<db_now, messages, message_seq, conversation_context,
                   user_memory>>

\* save_message(session_id, user_id, role, content)
save_message(session_id, user_id, role, content) ==
    /\ UNCHANGED <<llm_vars, kb_vars, fb_vars, ctx_vars, aq_vars, turn_vars, ct_vars, rt_vars>>
    /\ message_seq < MaxRows
    /\ message_seq' = message_seq + 1
    /\ messages' = Append(messages,
                          [id |-> message_seq', session_id |-> session_id,
                           user_id |-> user_id, role |-> role,
                           content |-> content, timestamp |-> db_now])
    /\ mem_ret' = MemRet("save_message", <<session_id>>, <<>>)
    /\ UNCHANGED <<db_now, uuids, chat_sessions, conversation_context,
                   user_memory>>

\* get_session_messages(session_id, limit)
get_session_messages(session_id, limit) ==
    /\ UNCHANGED <<llm_vars, kb_vars, fb_vars, ctx_vars, aq_vars, turn_vars, ct_vars, rt_vars>>
    /\ \E rows \in timestamp_desc_orders(where_session(messages, session_id)) :
          LET fetched == sql_limit(rows, limit) IN
          mem_ret' = MemRet("get_session_messages", <<session_id, limit>>,
                            [i \in DOMAIN fetched |->
                                message_dict(reversed(fetched)[i])])
    /\ UNCHANGED <<db_now, uuids, chat_sessions, messages, message_seq,
                   conversation_context, user_memory>>

\* get_user_memory(user_id)
get_user_memory(user_id) ==
    /\ UNCHANGED <<llm_vars, kb_vars, fb_vars, ctx_vars, aq_vars, turn_vars, ct_vars, rt_vars>>
    /\ \E result \in get_user_memory_results(user_memory, user_id) :
          mem_ret' = MemRet("get_user_memory", <<user_id>>, result)
    /\ UNCHANGED <<db_now, uuids, chat_sessions, messages, message_seq,
                   conversation_context, user_memory>>

\* update_user_memory(user_id, memory_summary, facts)
update_user_memory(user_id, memory_summary, facts) ==
    /\ UNCHANGED <<llm_vars, kb_vars, fb_vars, ctx_vars, aq_vars, turn_vars, ct_vars, rt_vars>>
    /\ user_memory' = upsert_memory(user_memory, user_id, memory_summary,
                                    facts, db_now)
    /\ mem_ret' = MemRet("update_user_memory",
                         <<user_id, memory_summary, facts>>, <<>>)
    /\ UNCHANGED <<db_now, uuids, chat_sessions, messages, message_seq,
                   conversation_context>>

\* clear_user_memory(user_id)
clear_user_memory(user_id) ==
    /\ UNCHANGED <<llm_vars, kb_vars, fb_vars, ctx_vars, aq_vars, turn_vars, ct_vars, rt_vars>>
    /\ user_memory' = delete_where_user(user_memory, user_id)
    /\ mem_ret' = MemRet("clear_user_memory", <<user_id>>, <<>>)
    /\ UNCHANGED <<db_now, uuids, chat_sessions, messages, message_seq,
                   conversation_context>>

\* delete_session(session_id)
delete_session(session_id) ==
    /\ UNCHANGED <<llm_vars, kb_vars, fb_vars, ctx_vars, aq_vars, turn_vars, ct_vars, rt_vars>>
    /\ messages' = delete_where_session(messages, session_id)
    /\ chat_sessions' = delete_where_session(chat_sessions, session_id)
    /\ conversation_context' =
          delete_where_session(conversation_context, session_id)
    /\ mem_ret' = MemRet("delete_session", <<session_id>>, <<>>)
    /\ UNCHANGED <<db_now, uuids, message_seq, user_memory>>

\* save_conversation_context(session_id, user_id, context_data):
\* INSERT ... ON CONFLICT(session_id) DO UPDATE SET context_data, updated_at
save_conversation_context(session_id, user_id, context_data) ==
    /\ UNCHANGED <<llm_vars, kb_vars, fb_vars, ctx_vars, aq_vars, turn_vars, ct_vars, rt_vars>>
    /\ conversation_context' =
          IF where_session(conversation_context, session_id) # <<>>
          THEN [i \in DOMAIN conversation_context |->
                  IF conversation_context[i].session_id = session_id
                  THEN [conversation_context[i] EXCEPT
                          !.context_data = json_dumps(context_data)]
                  ELSE conversation_context[i]]
          ELSE Append(conversation_context,
                      [session_id |-> session_id, user_id |-> user_id,
                       context_data |-> json_dumps(context_data)])
    /\ mem_ret' = MemRet("save_conversation_context", <<session_id>>, <<>>)
    /\ UNCHANGED <<db_now, uuids, chat_sessions, messages, message_seq,
                   user_memory>>

\* clear_conversation_context(session_id)
clear_conversation_context(session_id) ==
    /\ UNCHANGED <<llm_vars, kb_vars, fb_vars, ctx_vars, aq_vars, turn_vars, ct_vars, rt_vars>>
    /\ conversation_context' =
          delete_where_session(conversation_context, session_id)
    /\ mem_ret' = MemRet("clear_conversation_context", <<session_id>>, <<>>)
    /\ UNCHANGED <<db_now, uuids, chat_sessions, messages, message_seq,
                   user_memory>>

\* The user-memory routes (routes/memory_routes.py).
MEMNext ==
    \/ Tick
    \/ \E u \in Users, summary \in Summaries, facts \in FactLists :
          update_user_memory(u, summary, facts)
    \/ \E u \in Users : get_user_memory(u)
    \/ \E u \in Users : clear_user_memory(u)

\* The message history of the sessions.
MSGNext ==
    \/ Tick
    \/ \E s \in SessionIds, role \in Roles, content \in MessageContents :
          save_message(s, DefaultUser, role, content)
    \/ \E s \in SessionIds, limit \in Limits : get_session_messages(s, limit)

\* The life of sessions: creation, messages, topic context, deletion, next
\* to the users' memory.
SESNext ==
    \/ create_chat_session(DefaultUser)
    \/ \E s \in SessionIds :
          save_message(s, DefaultUser, "user", "hello")
    \/ \E s \in SessionIds :
          save_conversation_context(s, DefaultUser, [topic_count |-> 0])
    \/ \E s \in SessionIds : clear_conversation_context(s)
    \/ \E u \in Users : update_user_memory(u, "likes tea", <<>>)
    \/ \E s \in SessionIds : delete_session(s)

(***************************************************************************)
(* routes/chat_routes.py : the chat turn, over the tables of memory.py     *)
(***************************************************************************)
MaxTurns == 2                      \* cap on the turns submitted

NoSession == 0                     \* request.session_id is None
NoReply == ""

\* Python values: what json.loads yields and what the route passes on.  A
\* value has its type, its text (str(value)) and, for a dict, its members
\* as key-value pairs.
PyStr(text) == [type |-> "str", text |-> text, members |-> {}]
PyNone == [type |-> "NoneType", text |-> "None", members |-> {}]
PyInt(text) == [type |-> "int", text |-> text, members |-> {}]
PyList(text) == [type |-> "list", text |-> text, members |-> {}]
PyDict(text, members) == [type |-> "dict", text |-> text, members |-> members]

NoResponse == [status |-> "none", message |-> PyNone, error |-> "none"]

\* Reply texts of a backend: JSON objects with a string message, without a
\* message, with a null, a number or a list as message; a JSON array;
\* plain text; and JSON objects naming an action, one that execute_action
\* knows and one that it does not.
ReplyTexts ==
    {"{\"message\": \"It is sunny.\"}",
     "{\"message\": \"Checking.\", \"action\": \"list_recent_emails\"}",
     "{\"message\": \"Dancing.\", \"action\": \"dance\"}",
     "{\"data\": null}",
     "{\"message\": null}",
     "{\"message\": 5}",
     "{\"message\": [\"a\"]}",
     "[1]",
     "It is sunny."}

JSONDecodeError == [type |-> "JSONDecodeError", text |-> "", members |-> {}]

\* json.loads(raw_message), tabulated over ReplyTexts
loads_reply(raw_message) ==
    CASE raw_message = "{\"message\": \"It is sunny.\"}" ->
            PyDict(raw_message, {<<"message", PyStr("It is sunny.")>>})
      [] raw_message = "{\"data\": null}" ->
            PyDict(raw_message, {<<"data", PyNone>>})
      [] raw_message = "{\"message\": null}" ->
            PyDict(raw_message, {<<"message", PyNone>>})
      [] raw_message = "{\"message\": 5}" ->
            PyDict(raw_message, {<<"message", PyInt("5")>>})
      [] raw_message = "{\"message\": [\"a\"]}" ->
            PyDict(raw_message, {<<"message", PyList("['a']")>>})
      [] raw_message = "[1]" -> PyList("[1]")
      [] raw_message = "{\"message\": \"Checking.\", \"action\": \"list_recent_emails\"}" ->
            PyDict(raw_message, {<<"message", PyStr("Checking.")>>,
                                 <<"action", PyStr("list_recent_emails")>>})
      [] raw_message = "{\"message\": \"Dancing.\", \"action\": \"dance\"}" ->
            PyDict(raw_message, {<<"message", PyStr("Dancing.")>>,
                                 <<"action", PyStr("dance")>>})
      [] OTHER -> JSONDecodeError

\* parsed_response.get(key, default)
dict_get(members, key, default) ==
    IF \E kv \in members : kv[1] = key
    THEN (CHOOSE kv \in members : kv[1] = key)[2]
    ELSE default

\* The try/except around json.loads and .get: a text that is not JSON raises
\* JSONDecodeError, a JSON value that is not an object has no .get and raises
\* AttributeError; both leave the raw text as the message.
parse_reply(raw_message) ==
    IF loads_reply(raw_message).type = "dict"
    THEN LET parsed_response == loads_reply(raw_message).members IN
         [assistant_message |->
             dict_get(parsed_response, "message", PyStr(raw_message)),
          action |-> dict_get(parsed_response, "action", PyNone)]
    ELSE [assistant_message |-> PyStr(raw_message), action |-> PyNone]

\* Binding a value to the content column (TEXT NOT NULL): None violates the
\* constraint, a list or a dict is not a supported type.
bind_error(value) ==
    CASE value.type = "NoneType" -> "IntegrityError"
      [] value.type \in {"list", "dict"} -> "ProgrammingError"
      [] OTHER -> "none"

\* What the TEXT column holds for a bound str or int.
stored_text(value) == value.text

\* execute_action(action, data, user_id): the results it can return.  Every
\* branch of a known action returns a dict with a message (also when the
\* integration is not configured or raises), an unknown action returns None.
execute_action(action) ==
    IF action = PyStr("list_recent_emails")
    THEN {PyDict("gmail", {<<"message", PyStr("Gmail not configured.")>>}),
          PyDict("emails", {<<"message", PyStr("No recent emails found.")>>})}
    ELSE {PyNone}

\* `if action:` : None and the empty string skip the execution.
is_truthy(value) == value.type # "NoneType" /\ value.text # ""

\* The result of an executed action joined to the message that is returned:
\* `assistant_message += f"\n\n{action_result['message']}"` when the result
\* is a dict with a message; on an int message the += raises TypeError,
\* which the surrounding except clause swallows.
append_action_result(assistant_message, action_result) ==
    IF /\ action_result.type = "dict"
       /\ is_truthy(dict_get(action_result.members, "message", PyNone))
       /\ assistant_message.type = "str"
    THEN PyStr(assistant_message.text \o "\n\n" \o
               dict_get(action_result.members, "message", PyNone).text)
    ELSE assistant_message

\* The row INSERT INTO messages adds.
message_row(id, session_id, user_id, role, content, now) ==
    [id |-> id, session_id |-> session_id, user_id |-> user_id,
     role |-> role, content |-> content, timestamp |-> now]

\* A turn that keeps the session id of the request.
effective_session_Keep(request_session_id, created) == request_session_id

\* if not request.session_id: request.session_id = create_chat_session(...)
effective_session(request_session_id, created) ==
    IF request_session_id = NoSession THEN created ELSE request_session_id

HttpError(detail) ==
    [status |-> "error", message |-> PyNone, error |-> detail]

TURNInit ==
    /\ turn_pc = "idle"
    /\ turn_count = 0
    /\ turn_req = [session_id |-> NoSession, message |-> NoMessage]
    /\ turn_session = NoSession
    /\ turn_before = [messages |-> <<>>, uuids |-> 0,
                      conversation_context |-> <<>>]
    /\ turn_reply = NoReply
    /\ turn_parsed = parse_reply(NoReply)
    /\ turn_resp = NoResponse

\* chat(request) up to the call of the backend: the session is created when
\* the request has none, and a reset phrase clears the session's topic
\* context.  A write the database refuses raises out of the route.  A
\* caller naming a session names one that was issued: a uuid4 is not guessed.
TurnStart(session_id, message, db_ok) ==
    /\ UNCHANGED <<llm_vars, kb_vars, fb_vars, ctx_vars, aq_vars, ct_vars, rt_vars>>
    /\ turn_pc \in {"idle", "done"}
    /\ turn_count < MaxTurns
    /\ IF session_id = NoSession THEN uuids < MaxSessions
       ELSE session_id <= uuids
    /\ turn_count' = turn_count + 1
    /\ turn_req' = [session_id |-> session_id, message |-> message]
    /\ turn_before' = [messages |-> messages, uuids |-> uuids,
                       conversation_context |-> conversation_context]
    /\ turn_reply' = NoReply
    /\ turn_parsed' = parse_reply(NoReply)
    /\ LET creates == session_id = NoSession
           resets == check_for_topic_reset(message)
           session == effective_session(session_id, uuids + 1)
       IN
       /\ IF creates /\ db_ok
          THEN /\ uuids' = uuids + 1
               /\ chat_sessions' =
                     Append(chat_sessions,
                            [session_id |-> uuids', user_id |-> DefaultUser,
                             created_at |-> db_now])
          ELSE UNCHANGED <<uuids, chat_sessions>>
       /\ conversation_context' =
             IF resets /\ db_ok
             THEN delete_where_session(conversation_context, session)
             ELSE conversation_context
       /\ IF (creates \/ resets) /\ ~db_ok
          THEN /\ turn_pc' = "done"
               /\ turn_session' = session_id
               /\ turn_resp' = HttpError("OperationalError")
          ELSE /\ turn_pc' = "dispatch"
               /\ turn_session' = session
               /\ turn_resp' = NoResponse
    /\ UNCHANGED <<db_now, messages, message_seq, user_memory, mem_ret>>

\* llm_client.chat raises: the route answers with the error
DispatchFails ==
    /\ UNCHANGED <<llm_vars, kb_vars, fb_vars, ctx_vars, aq_vars, mem_vars, ct_vars, rt_vars>>
    /\ turn_pc = "dispatch"
    /\ turn_pc' = "done"
    /\ turn_resp' = HttpError("LLM error")
    /\ UNCHANGED <<turn_count, turn_req, turn_session, turn_before,
                   turn_reply, turn_parsed>>

\* llm_client.chat returns an envelope; its message is parsed
Dispatch(raw_message) ==
    /\ UNCHANGED <<llm_vars, kb_vars, fb_vars, ctx_vars, aq_vars, mem_vars, ct_vars, rt_vars>>
    /\ turn_pc = "dispatch"
    /\ turn_pc' = "save_user"
    /\ turn_reply' = raw_message
    /\ turn_parsed' = parse_reply(raw_message)
    /\ UNCHANGED <<turn_count, turn_req, turn_session, turn_before, turn_resp>>

\* save_message(role="user", content=original_message)
SaveUserMessage(db_ok) ==
    /\ UNCHANGED <<llm_vars, kb_vars, fb_vars, ctx_vars, aq_vars, ct_vars, rt_vars>>
    /\ turn_pc = "save_user"
    /\ IF db_ok
       THEN /\ message_seq' = message_seq + 1
            /\ messages' =
                  Append(messages,
                         message_row(message_seq', turn_session, DefaultUser,
                                     "user", turn_req.message, db_now))
            /\ turn_pc' = "save_assistant"
            /\ UNCHANGED turn_resp
       ELSE /\ turn_pc' = "done"
            /\ turn_resp' = HttpError("OperationalError")
            /\ UNCHANGED <<messages, message_seq>>
    /\ UNCHANGED <<db_now, uuids, chat_sessions, conversation_context,
                   user_memory, mem_ret>>
    /\ UNCHANGED <<turn_count, turn_req, turn_session, turn_before,
                   turn_reply, turn_parsed>>

\* save_message(role="assistant", content=assistant_message)
SaveAssistantMessage(db_ok) ==
    /\ UNCHANGED <<llm_vars, kb_vars, fb_vars, ctx_vars, aq_vars, ct_vars, rt_vars>>
    /\ turn_pc = "save_assistant"
    /\ LET content == turn_parsed.assistant_message IN
       IF bind_error(content) # "none"
       THEN /\ turn_pc' = "done"
            /\ turn_resp' = HttpError(bind_error(content))
            /\ UNCHANGED <<messages, message_seq>>
       ELSE IF ~db_ok
       THEN /\ turn_pc' = "done"
            /\ turn_resp' = HttpError("OperationalError")
            /\ UNCHANGED <<messages, message_seq>>
       ELSE /\ message_seq' = message_seq + 1
            /\ messages' =
                  Append(messages,
                         message_row(message_seq', turn_session, DefaultUser,
                                     "assistant", stored_text(content), db_now))
            /\ turn_pc' = "save_context"
            /\ UNCHANGED turn_resp
    /\ UNCHANGED <<db_now, uuids, chat_sessions, conversation_context,
                   user_memory, mem_ret>>
    /\ UNCHANGED <<turn_count, turn_req, turn_session, turn_before,
                   turn_reply, turn_parsed>>

\* update_context and save_conversation_context(to_dict()); then the
\* response, unless the reply names an action, which is executed first.
SaveContext(db_ok) ==
    /\ UNCHANGED <<llm_vars, kb_vars, fb_vars, ctx_vars, aq_vars, ct_vars, rt_vars>>
    /\ turn_pc = "save_context"
    /\ turn_pc' = IF db_ok /\ is_truthy(turn_parsed.action)
                  THEN "execute_action" ELSE "done"
    /\ IF db_ok
       THEN /\ conversation_context' =
                  IF where_session(conversation_context, turn_session) # <<>>
                  THEN [i \in DOMAIN conversation_context |->
                          IF conversation_context[i].session_id = turn_session
                          THEN [conversation_context[i] EXCEPT
                                  !.context_data =
                                     json_dumps([topic_count |-> 0])]
                          ELSE conversation_context[i]]
                  ELSE Append(conversation_context,
                              [session_id |-> turn_session,
                               user_id |-> DefaultUser,
                               context_data |->
                                  json_dumps([topic_count |-> 0])])
            /\ turn_resp' = IF is_truthy(turn_parsed.action)
                             THEN NoResponse
                             ELSE [status |-> "ok",
                                   message |-> turn_parsed.assistant_message,
                                   error |-> "none"]
       ELSE /\ turn_resp' = HttpError("OperationalError")
            /\ UNCHANGED conversation_context
    /\ UNCHANGED <<db_now, uuids, chat_sessions, messages, message_seq,
                   user_memory, mem_ret>>
    /\ UNCHANGED <<turn_count, turn_req, turn_session, turn_before,
                   turn_reply, turn_parsed>>

\* `action_result = await execute_action(...)` and the response: the result
\* is joined to the message after the message was saved.
ExecuteAction(action_result) ==
    /\ UNCHANGED <<llm_vars, kb_vars, fb_vars, ctx_vars, aq_vars, mem_vars, ct_vars, rt_vars>>
    /\ turn_pc = "execute_action"
    /\ action_result \in execute_action(turn_parsed.action)
    /\ turn_pc' = "done"
    /\ turn_resp' = [status |-> "ok",
                     message |-> append_action_result(
                                    turn_parsed.assistant_message,
                                    action_result),
                     error |-> "none"]
    /\ UNCHANGED <<turn_count, turn_req, turn_session, turn_before,
                   turn_reply, turn_parsed>>

TURNNext ==
    \/ \E s \in {NoSession} \cup SessionIds, message \in TurnMessages,
          db_ok \in BOOLEAN : TurnStart(s, message, db_ok)
    \/ DispatchFails
    \/ \E raw_message \in ReplyTexts : Dispatch(raw_message)
    \/ \E db_ok \in BOOLEAN : SaveUserMessage(db_ok)
    \/ \E db_ok \in BOOLEAN : SaveAssistantMessage(db_ok)
    \/ \E db_ok \in BOOLEAN : SaveContext(db_ok)
    \/ \E action_result \in UNION {execute_action(PyStr(a)) :
                                     a \in {"list_recent_emails", "dance"}} :
          ExecuteAction(action_result)

\* Turns next to DELETE /session/{session_id}.  Both routes are coroutines
\* on one event loop: a deletion runs between turns or while a turn waits at
\* one of its awaits (the backend call, the execution of an action), never
\* between the writes of a turn.
at_await == turn_pc \in {"idle", "done", "dispatch", "execute_action"}

STORENext ==
    \/ TURNNext
    \/ /\ at_await
       /\ \E s \in SessionIds : delete_session(s)

\* ---------------------------------------------------------------------
\* Turns in flight at the same time.  chat() is a coroutine: it runs from
\* its start to `await llm_client.chat(...)` in one piece (Load, the reset
\* check, the prompt), other requests run while it waits, and after the
\* reply it runs to the end in one piece (the two save_message calls,
\* update_context, save_conversation_context).  Each request has its own
\* ConversationContext object; the database is shared.
\* ---------------------------------------------------------------------

\* A tracker as one value: the fields of a ConversationContext object.
NewTracker == [ring |-> <<>>, cur |-> NoTopic, history |-> <<>>]

\* ConversationContext() followed by `if saved_context: from_dict(...)`
context_from_dict(saved_context, now) ==
    IF ~saved_context.saved
    THEN NewTracker
    ELSE [ring |-> [i \in DOMAIN saved_context.d_current_topics |->
                      topic_from_dict(saved_context.d_current_topics[i], now)],
          cur |-> IF saved_context.d_current_topic = NoTopic THEN NoTopic
                  ELSE topic_from_dict(saved_context.d_current_topic, now),
          history |-> <<>>]

\* ConversationContext.reset_current_topic
reset_current_topic(tracker) ==
    IF tracker.cur = NoTopic
    THEN tracker
    ELSE [ring |-> push_recent(tracker.ring, tracker.cur),
          cur |-> NoTopic,
          history |-> Append(tracker.history, tracker.cur)]

\* ConversationContext.update_context, detect_topic having returned
\* (topic, confidence)
update_context(tracker, user_message, topic, confidence, now) ==
    IF tracker.cur = NoTopic
    THEN [tracker EXCEPT
            !.cur = ConversationTopic(topic, <<user_message>>, confidence, now)]
    ELSE IF tracker.cur.topic # topic
    THEN [ring |-> push_recent(tracker.ring, tracker.cur),
          cur |-> ConversationTopic(topic, <<user_message>>, confidence, now),
          history |-> Append(tracker.history, tracker.cur)]
    ELSE [tracker EXCEPT
            !.cur = [add_message(tracker.cur, user_message, now) EXCEPT
                       !.confidence = running_average(tracker.cur.confidence,
                                                      confidence)]]

\* ConversationContext.to_dict of a tracker
to_dict(tracker) == context_to_dict(tracker.ring, tracker.cur, tracker.history)

\* The part of the turn before the await, on a tracker
load_transition(saved_context, message, now) ==
    IF check_for_topic_reset(message)
    THEN reset_current_topic(context_from_dict(saved_context, now))
    ELSE context_from_dict(saved_context, now)

\* An upsert that lost its conflict target: every row takes the new data.
upsert_context_AllRows(rows, session_id, user_id, context_data) ==
    IF where_session(rows, session_id) # <<>>
    THEN [i \in DOMAIN rows |->
            [rows[i] EXCEPT !.context_data = json_dumps(context_data)]]
    ELSE Append([i \in DOMAIN rows |->
                   [rows[i] EXCEPT !.context_data = json_dumps(context_data)]],
                [session_id |-> session_id, user_id |-> user_id,
                 context_data |-> json_dumps(context_data)])

\* INSERT INTO conversation_context ... ON CONFLICT(session_id) DO UPDATE
upsert_context(rows, session_id, user_id, context_data) ==
    IF where_session(rows, session_id) # <<>>
    THEN [i \in DOMAIN rows |->
            IF rows[i].session_id = session_id
            THEN [rows[i] EXCEPT !.context_data = json_dumps(context_data)]
            ELSE rows[i]]
    ELSE Append(rows, [session_id |-> session_id, user_id |-> user_id,
                       context_data |-> json_dumps(context_data)])

\* memory_manager.get_conversation_context(session_id): the dict or None
saved_context_of(rows, session_id) ==
    IF where_session(rows, session_id) = <<>>
    THEN NoContext
    ELSE json_loads(where_session(rows, session_id)[1].context_data)

\* The reply of the backend in these turns.
AssistantReply == "hi there"

\* The role and content of the messages of a session, oldest first.
session_transcript(rows, session_id) ==
    [i \in DOMAIN where_session(rows, session_id) |->
        [role |-> where_session(rows, session_id)[i].role,
         content |-> where_session(rows, session_id)[i].content]]

CtNoTask == [pc |-> "idle", session |-> NoSession, message |-> NoMessage,
             n |-> 0, tracker |-> NewTracker, alone_tracker |-> NewTracker]

\* A session on its own: its context blob and its transcript.
NoSessionState == [blob |-> NoContext, transcript |-> <<>>]

CTInit ==
    /\ ct_task = [t \in Tasks |-> CtNoTask]
    /\ ct_count = 0
    /\ ct_alone = [s \in SessionIds |-> NoSessionState]
    /\ ct_serial = [s \in SessionIds |-> NoContext]

\* POST /new_chat: a session is created
CtNewChat ==
    /\ UNCHANGED <<llm_vars, kb_vars, fb_vars, ctx_vars, aq_vars, turn_vars, rt_vars>>
    /\ uuids < MaxSessions
    /\ uuids' = uuids + 1
    /\ chat_sessions' = Append(chat_sessions,
                               [session_id |-> uuids', user_id |-> DefaultUser,
                                created_at |-> db_now])
    /\ UNCHANGED <<db_now, messages, message_seq, conversation_context,
                   user_memory, mem_ret, ct_vars>>

\* chat(request) for an existing session, up to the await: the context is
\* loaded into the request's own tracker and a reset phrase clears the
\* session's stored context.
CtTurnStart(t, session_id, message) ==
    /\ UNCHANGED <<llm_vars, kb_vars, fb_vars, ctx_vars, aq_vars, turn_vars, rt_vars>>
    /\ ct_task[t].pc = "idle"
    /\ ct_count < MaxTurns
    /\ session_id \in 1..uuids
    /\ ct_count' = ct_count + 1
    /\ ct_task' =
         [ct_task EXCEPT
            ![t] = [pc |-> "dispatch", session |-> session_id,
                    message |-> message, n |-> ct_count',
                    tracker |->
                       load_transition(
                          saved_context_of(conversation_context, session_id),
                          message, db_now),
                    alone_tracker |->
                       load_transition(ct_alone[session_id].blob, message,
                                       db_now)]]
    /\ conversation_context' =
         IF check_for_topic_reset(message)
         THEN delete_where_session(conversation_context, session_id)
         ELSE conversation_context
    /\ ct_alone' =
         IF check_for_topic_reset(message)
         THEN [ct_alone EXCEPT ![session_id].blob = NoContext]
         ELSE ct_alone
    /\ UNCHANGED <<db_now, uuids, chat_sessions, messages, message_seq,
                   user_memory, mem_ret, ct_serial>>

\* llm_client.chat raises: the turn ends with the error, nothing is saved
CtDispatchFails(t) ==
    /\ UNCHANGED <<llm_vars, kb_vars, fb_vars, ctx_vars, aq_vars, turn_vars, rt_vars>>
    /\ ct_task[t].pc = "dispatch"
    /\ ct_task' = [ct_task EXCEPT ![t] = CtNoTask]
    /\ ct_serial' =
         IF check_for_topic_reset(ct_task[t].message)
         THEN [ct_serial EXCEPT ![ct_task[t].session] = NoContext]
         ELSE ct_serial
    /\ UNCHANGED <<mem_vars, ct_count, ct_alone>>

\* llm_client.chat returns: the turn saves both messages, classifies the
\* user message (detect_topic gives topic and confidence), and saves its
\* tracker as the session's context.
CtTurnFinish(t, topic, confidence) ==
    /\ UNCHANGED <<llm_vars, kb_vars, fb_vars, ctx_vars, aq_vars, turn_vars, rt_vars>>
    /\ ct_task[t].pc = "dispatch"
    /\ LET task == ct_task[t]
           s == task.session
           updated(tracker) ==
               update_context(tracker, task.n, topic, confidence, db_now)
       IN
       /\ message_seq' = message_seq + 2
       /\ messages' =
            messages \o
            <<message_row(message_seq + 1, s, DefaultUser, "user",
                          task.message, db_now),
              message_row(message_seq + 2, s, DefaultUser, "assistant",
                          AssistantReply, db_now)>>
       /\ conversation_context' =
            upsert_context(conversation_context, s, DefaultUser,
                           to_dict(updated(task.tracker)))
       /\ ct_alone' =
            [ct_alone EXCEPT
               ![s] = [blob |-> to_dict(updated(task.alone_tracker)),
                       transcript |->
                          @.transcript \o
                          <<[role |-> "user", content |-> task.message],
                            [role |-> "assistant",
                             content |-> AssistantReply]>>]]
       /\ ct_serial' =
            [ct_serial EXCEPT
               ![s] = to_dict(updated(load_transition(@, task.message,
                                                      db_now)))]
    /\ ct_task' = [ct_task EXCEPT ![t] = CtNoTask]
    /\ UNCHANGED <<db_now, uuids, chat_sessions, user_memory, mem_ret,
                   ct_count>>

CTNext ==
    \/ CtNewChat
    \/ \E t \in Tasks, s \in SessionIds, message \in TurnMessages :
          CtTurnStart(t, s, message)
    \/ \E t \in Tasks : CtDispatchFails(t)
    \/ \E t \in Tasks, topic \in TopicLabels, confidence \in Confidences :
          CtTurnFinish(t, topic, confidence)


(***************************************************************************)
(* core/conversation_context.py : a tracker kept in memory next to one     *)
(* that is saved after every turn and restored before the next             *)
(*                                                                         *)
(* The route builds a ConversationContext per request, restores it from    *)
(* the session's row (from_dict), applies the turn and saves it (to_dict). *)
(* rt_tracker is one ConversationContext that lives through all the turns *)
(* of the session; rt_rows is the conversation_context table of the route. *)
(***************************************************************************)
MaxRoundTrips == 4                 \* cap on the turns of the session

RtSession == 1                     \* the session of these turns

\* `self.current_topic is None or self.current_topic.topic != topic`
topic_changed(tracker, topic) ==
    tracker.cur = NoTopic \/ tracker.cur.topic # topic

RTInit ==
    /\ rt_tracker = NewTracker
    /\ rt_rows = <<>>
    /\ rt_flags = [in_memory |-> FALSE, restored |-> FALSE]
    /\ rt_clock = 0

\* One successful turn: the reset check, update_context (detect_topic having
\* given topic and confidence) and, on the route, the load before and the
\* save after.
RtTurn(message, topic, confidence) ==
    /\ UNCHANGED <<llm_vars, kb_vars, fb_vars, ctx_vars, aq_vars, mem_vars, turn_vars, ct_vars>>
    /\ rt_clock < MaxRoundTrips
    /\ rt_clock' = rt_clock + 1
    /\ LET now == rt_clock'
           resets == check_for_topic_reset(message)
           kept == IF resets THEN reset_current_topic(rt_tracker)
                   ELSE rt_tracker
           loaded == load_transition(saved_context_of(rt_rows, RtSession),
                                     message, now)
           cleared == IF resets THEN delete_where_session(rt_rows, RtSession)
                      ELSE rt_rows
       IN
       /\ rt_tracker' = update_context(kept, message, topic, confidence, now)
       /\ rt_rows' = upsert_context(cleared, RtSession, DefaultUser,
                                    to_dict(update_context(loaded, message,
                                                           topic, confidence,
                                                           now)))
       /\ rt_flags' = [in_memory |-> topic_changed(kept, topic),
                       restored |-> topic_changed(loaded, topic)]

RTNext ==
    \E message \in TurnMessages, topic \in TopicLabels,
       confidence \in Confidences : RtTurn(message, topic, confidence)

(***************************************************************************)
(* A turn together with the backend call it awaits                         *)
(*                                                                         *)
(* chat_routes.chat awaits llm_client.chat once per turn (line 356): the   *)
(* route is suspended at the await while LLMClient.chat runs, and resumes  *)
(* with the envelope or with the exception.  Each backend request is       *)
(* bounded by a timeout (15 s for Groq, 60 s for Ollama), so a request     *)
(* that was sent eventually returns or raises, and the event loop resumes  *)
(* a coroutine whose awaited call has completed: the steps after the       *)
(* receipt of the request are weakly fair.                                 *)
(***************************************************************************)
\* The awaited llm_client.chat has completed that would never complete.
chat_completed_Never == FALSE

\* `response = await llm_client.chat(...)`: the route resumes when the call
\* has returned or raised.
chat_completed == llm_pc = "done"

\* The route is suspended at the await of llm_client.chat.
awaits_chat == turn_pc = "dispatch"

LIVEProgress ==
    \/ /\ awaits_chat
       /\ \E hint \in ProviderHints, ga, oa, oh \in BOOLEAN :
             ChatStart(hint, ga, oa, oh)
    \/ \E outcome \in GroqOutcomes \cup {NoClientText} : ChatGroq(outcome)
    \/ \E ok \in BOOLEAN : ChatOllama(ok)
    \/ /\ chat_completed /\ ~llm_ret.ok
       /\ DispatchFails
    \/ /\ chat_completed /\ llm_ret.ok
       /\ \E raw_message \in ReplyTexts : Dispatch(raw_message)
    \/ /\ ~awaits_chat
       /\ ChatReturn
    \/ \E db_ok \in BOOLEAN : SaveUserMessage(db_ok)
    \/ \E db_ok \in BOOLEAN : SaveAssistantMessage(db_ok)
    \/ \E db_ok \in BOOLEAN : SaveContext(db_ok)
    \/ \E action_result \in UNION {execute_action(PyStr(a)) :
                                     a \in {"list_recent_emails", "dance"}} :
          ExecuteAction(action_result)

\* One turn is followed from the request to its response.
LIVENext ==
    \/ /\ llm_pc = "idle" /\ turn_count = 0
       /\ \E s \in {NoSession} \cup SessionIds, message \in TurnMessages,
             db_ok \in BOOLEAN : TurnStart(s, message, db_ok)
    \/ LIVEProgress

vars == <<llm_vars, kb_vars, fb_vars, ctx_vars, aq_vars, mem_vars, turn_vars,
          ct_vars, rt_vars>>

Init ==
    /\ LLMInit /\ KBInit /\ FBInit /\ CTXInit /\ AQInit /\ MEMInit /\ TURNInit
    /\ CTInit /\ RTInit

SpecLLM == Init /\ [][LLMNext]_vars
SpecKB == Init /\ [][KBNext]_vars
SpecKBC == Init /\ [][KBCNext]_vars
SpecFB == Init /\ [][FBNext]_vars
RenderInit ==
    /\ LLMInit /\ KBInit /\ TableInit /\ CTXInit /\ AQInit /\ MEMInit /\ TURNInit
    /\ CTInit /\ RTInit
SpecRender == RenderInit /\ [][RenderNext]_vars
SpecCTX == Init /\ [][CTXNext]_vars
SpecAQ == Init /\ [][AQNext]_vars
SpecMEM == Init /\ [][MEMNext]_vars
SpecMSG == Init /\ [][MSGNext]_vars
SpecSES == Init /\ [][SESNext]_vars
SpecTURN == Init /\ [][TURNNext]_vars
SpecSTORE == Init /\ [][STORENext]_vars
SpecCT == Init /\ [][CTNext]_vars
SpecRT == Init /\ [][RTNext]_vars

SpecLIVE == Init /\ [][LIVENext]_vars /\ WF_vars(LIVEProgress)

(***************************************************************************)
(* Properties of the dispatcher                                            *)
(***************************************************************************)
Invoked(b) == \E i \in DOMAIN llm_calls : llm_calls[i].backend = b

\* C1: a provider hint naming a backend ("groq" or "ollama") means only that
\* backend is invoked during the call; a reply, if any, comes from it, and
\* the other backend is never invoked whatever its availability.
C1_ExplicitHintNoFailover ==
    llm_req.hint \in {"groq", "ollama"} =>
        /\ \A i \in DOMAIN llm_calls : llm_calls[i].backend = llm_req.hint
        /\ (llm_pc = "done" /\ llm_ret.ok) => llm_ret.provider = llm_req.hint

\* C2: hint "auto", groq available and its request timing out, ollama
\* available and healthy: chat returns a successful envelope whose provider
\* is ollama.
C2_AutoFailoverOnTimeout ==
    ( /\ llm_pc = "done"
      /\ llm_req.hint = "auto"
      /\ llm_req.groq_available
      /\ llm_req.ollama_available /\ llm_req.ollama_healthy
      /\ \E i \in DOMAIN llm_calls :
            /\ llm_calls[i].backend = "groq"
            /\ llm_calls[i].outcome \in GroqTimeoutTexts )
    => (llm_ret.ok /\ llm_ret.provider = "ollama")

C2_Witness ==
    /\ llm_pc = "done"
    /\ llm_req.hint = "auto"
    /\ llm_req.groq_available /\ llm_req.ollama_available
    /\ llm_req.ollama_healthy
    /\ Len(llm_calls) = 2
    /\ llm_calls[1] = [backend |-> "groq", outcome |-> ""]
    /\ llm_calls[2] = [backend |-> "ollama", outcome |-> "ok"]
    /\ llm_ret = Success("ollama")

\* ---------------------------------------------------------------------
\* C18: with hint "auto", when no backend is available at selection time
\* chat fails with the "No LLM provider available" diagnostic and invokes
\* no backend; when every backend that was tried failed chat fails; and,
\* whatever the hint, chat returns an envelope only if some backend call
\* succeeded (the envelope names that backend).
C18_AutoFailsWithoutWorkingBackend ==
    llm_pc = "done" =>
        /\ (/\ llm_req.hint = "auto"
            /\ ~llm_req.groq_available
            /\ ~llm_req.ollama_available)
              => /\ llm_ret = Failure("No LLM provider available")
                 /\ llm_calls = <<>>
        /\ (/\ llm_req.hint = "auto"
            /\ \A i \in DOMAIN llm_calls : llm_calls[i].outcome # "ok")
              => ~llm_ret.ok
        /\ llm_ret.ok =>
              \E i \in DOMAIN llm_calls :
                 /\ llm_calls[i].outcome = "ok"
                 /\ llm_calls[i].backend = llm_ret.provider

\* Auto mode tried groq, then ollama twice (from both except clauses), and
\* every call failed.
C18_Witness ==
    /\ llm_pc = "done"
    /\ llm_req.hint = "auto"
    /\ Len(llm_calls) >= 2
    /\ Invoked("groq") /\ Invoked("ollama")
    /\ \A i \in DOMAIN llm_calls : llm_calls[i].outcome # "ok"
    /\ ~llm_ret.ok


(***************************************************************************)
(* Properties of the knowledge base                                        *)
(***************************************************************************)
\* C3: after any completed add, delete or clear, starting from an empty
\* index, the number of vectors in the index equals the number of
\* surviving entries.
C3_VectorCountEqualsEntryCount == Len(index) = Len(knowledge_entries)

\* C4: an add of content that is already present returns the existing
\* entry with its content-derived id and status "exists", and leaves the
\* entry list and the vector count as they were; no two surviving entries
\* share an id.
C4_AddIdempotent ==
    [][ /\ \A c \in Contents :
             ( /\ kb_ret'.op = "add" /\ kb_ret'.arg = c
               /\ HasContent(knowledge_entries, c) )
             => /\ kb_ret'.status = "exists"
                /\ Len(kb_ret'.entries) = 1
                /\ kb_ret'.entries[1].id = _generate_id(c)
                /\ kb_ret'.entries[1] \in Range(knowledge_entries)
                /\ knowledge_entries' = knowledge_entries
                /\ Len(index') = Len(index)
        /\ \A i, j \in DOMAIN knowledge_entries' :
             knowledge_entries'[i].id = knowledge_entries'[j].id => i = j
      ]_vars

C4_Witness ==
    /\ kb_ret.op = "add" /\ kb_ret.status = "exists"
    /\ Len(knowledge_entries) >= 2
    /\ kb_ret.entries[1] = knowledge_entries[1]

\* C5: after delete(id) has succeeded, no query returns an entry with that
\* id until the same content is added again.
C5_DeletedNeverReturned ==
    kb_ret.op = "query" =>
        \A i \in DOMAIN kb_ret.entries : kb_ret.entries[i].id \notin kb_deleted

C5_Witness ==
    /\ kb_ret.op = "query"
    /\ kb_deleted # {}
    /\ Len(kb_ret.entries) >= 2
    /\ Len(knowledge_entries) < MaxContent

(***************************************************************************)
(* Properties of the feedback ledger                                       *)
(***************************************************************************)
Occurrences(seq, x) == Cardinality({i \in DOMAIN seq : seq[i] = x})

\* C6: once promote (apply_insights_to_memory) has been invoked for a user,
\* every insight of that user at or above the promotion floor (2) is flagged applied and its
\* synthesized fact is in the user's Memory exactly once, however often
\* promote was invoked; an insight below the floor has no fact in Memory.
C6_PromoteExactlyOnce ==
    fb_ret.op = "apply" =>
        \A i \in get_learning_insights(fb_ret.args[1], 1) :
            IF learning_insights[i].frequency >= 2
            THEN /\ learning_insights[i].applied_to_memory
                 /\ \A memory \in get_user_memory_results(user_memory,
                                                           fb_ret.args[1]) :
                       Occurrences(memory.facts, fact(learning_insights[i])) = 1
            ELSE \A memory \in get_user_memory_results(user_memory,
                                                       fb_ret.args[1]) :
                    Occurrences(memory.facts, fact(learning_insights[i])) = 0

\* ---------------------------------------------------------------------
\* C19: across record, promote and context operations no insight disappears
\* and no frequency decreases.  A record (user, message, correction) whose
\* message matches an existing insight of that user adds exactly 1 to the
\* frequency of one matching insight, overwrites its correction text and
\* changes no other row; a record without a match appends one insight of
\* that user with frequency 1 and changes no other row.  Promote and
\* context change no row.  Insights of other users are never touched.
C19_FrequencyMonotone ==
    [][LET old == learning_insights
           new == learning_insights'
       IN
       /\ Len(new) >= Len(old)
       /\ \A i \in DOMAIN old : new[i].frequency >= old[i].frequency
       /\ IF fb_ret'.op = "record"
          THEN LET u == fb_ret'.args[1]
                   m == fb_ret'.args[2]
                   c == fb_ret'.args[3]
                   matches == {i \in DOMAIN old :
                                  /\ old[i].user_id = u
                                  /\ Like(old[i].pattern, Prefix(m, 50))}
               IN
               /\ \A i \in DOMAIN old : old[i].user_id # u => new[i] = old[i]
               /\ IF matches # {}
                  THEN /\ Len(new) = Len(old)
                       /\ \E i \in matches :
                             /\ new[i] = [old[i] EXCEPT
                                             !.frequency = old[i].frequency + 1,
                                             !.correction = c]
                             /\ \A j \in DOMAIN old \ {i} : new[j] = old[j]
                  ELSE /\ new = Append(old,
                                 [user_id |-> u, pattern |-> m,
                                  correction |-> c, frequency |-> 1,
                                  applied_to_memory |-> FALSE])
          ELSE new = old
    ]_vars

\* A user's insight was recorded twice with the later correction text while
\* another user holds an insight with the same pattern, still at frequency 1.
C19_Witness ==
    /\ fb_ret.op = "record"
    /\ \E i, j \in DOMAIN learning_insights :
          /\ learning_insights[i].user_id = fb_ret.args[1]
          /\ learning_insights[i].pattern = fb_ret.args[2]
          /\ learning_insights[i].correction = fb_ret.args[3]
          /\ learning_insights[i].frequency = 2
          /\ learning_insights[j].user_id # fb_ret.args[1]
          /\ learning_insights[j].pattern = fb_ret.args[2]
          /\ learning_insights[j].correction # fb_ret.args[3]
          /\ learning_insights[j].frequency = 1
          /\ j < i

(***************************************************************************)
(* Properties of the topic tracker                                         *)
(***************************************************************************)
\* The current topic is superseded by this step: a reset, or a message
\* classified under another label, while a topic is current.
Superseded ==
    /\ ctx_pc # "idle"
    /\ current_topic # NoTopic
    /\ \/ current_topic' = NoTopic
       \/ current_topic'.start_time # current_topic.start_time

\* C7: the recent-topics ring never holds more than 3 topics; a topic pushed
\* onto a full ring evicts the oldest one, the others keeping their order,
\* and nothing else changes the ring during a turn.
C7_RecentRingBounded ==
    [][ /\ Len(current_topics') <= 3
        /\ Superseded =>
             current_topics' =
                (IF Len(current_topics) = 3 THEN Tail(current_topics)
                 ELSE current_topics) \o <<current_topic>>
        /\ (ctx_pc # "idle" /\ ~Superseded) =>
             current_topics' = current_topics
      ]_vars

C7_Witness ==
    /\ Len(ctx_log) = 5
    /\ Len(current_topics) = 3
    /\ current_topics[1].start_time = 2
    /\ current_topics[3].start_time = 4
    /\ current_topic # NoTopic /\ current_topic.start_time = 5

\* The messages at the end of the log that carry the label of the last one.
RECURSIVE SameLabelRun(_)
SameLabelRun(log) ==
    IF Len(log) <= 1 THEN log
    ELSE LET front == SubSeq(log, 1, Len(log) - 1)
             last == log[Len(log)]
         IN IF front[Len(front)].topic = last.topic
            THEN Append(SameLabelRun(front), last)
            ELSE <<last>>

\* C8: after N >= 1 consecutive messages under one label the current
\* topic's message counter is N, across serialization between turns and
\* beyond the history capacity 5; the history holds at most 5 excerpts, the
\* latest ones.
C8_MessageCounterIsRunLength ==
    current_topic # NoTopic =>
        LET run == SameLabelRun(ctx_log) IN
        /\ Len(run) >= 1
        /\ current_topic.message_count = Len(run)
        /\ Len(current_topic.messages) <= 5
        /\ current_topic.messages =
              LastN([i \in DOMAIN run |-> run[i].message], 5)

C8_Witness ==
    /\ ctx_pc = "loaded"
    /\ ctx_saved.saved
    /\ current_topic # NoTopic
    /\ current_topic.message_count = 6
    /\ current_topic.messages = <<2, 3, 4, 5, 6>>

RECURSIVE SumConfidence(_)
SumConfidence(run) ==
    IF run = <<>> THEN 0
    ELSE run[Len(run)].confidence + SumConfidence(SubSeq(run, 1, Len(run) - 1))

\* c1 + sum over i in 2..N of ci * 2^(i-2): the numerator of the halving
\* average over the denominator 2^(N-1).
RECURSIVE HalvingNumerator(_)
HalvingNumerator(run) ==
    IF Len(run) = 1 THEN run[1].confidence
    ELSE run[Len(run)].confidence * 2 ^ (Len(run) - 2)
         + HalvingNumerator(SubSeq(run, 1, Len(run) - 1))

\* C9 as stated: after N consecutive messages under one label the current
\* topic's confidence is the mean of the N observed confidences.
C9_ConfidenceIsMean ==
    current_topic # NoTopic =>
        LET run == SameLabelRun(ctx_log) IN
        current_topic.confidence * Len(run) = SumConfidence(run)

\* C9 as amended: the confidence is c1 for N = 1 and the average of the
\* previous confidence and cN after that, which is
\* c1 / 2^(N-1) + sum over i in 2..N of ci / 2^(N-i+1).
C9_ConfidenceIsHalvingAverage ==
    current_topic # NoTopic =>
        LET run == SameLabelRun(ctx_log) IN
        current_topic.confidence * 2 ^ (Len(run) - 1) = HalvingNumerator(run)

C9_Witness ==
    /\ current_topic # NoTopic
    /\ Len(SameLabelRun(ctx_log)) >= 3
    /\ current_topic.message_count >= 3
    /\ current_topic.confidence * Len(SameLabelRun(ctx_log))
          # SumConfidence(SameLabelRun(ctx_log))

(***************************************************************************)
(* Properties of the confidence scorer                                     *)
(***************************************************************************)
\* C10: analyze_query marks a message ambiguous (is_ambiguous and
\* needs_clarification) exactly when its confidence is below 0.7, or it is
\* empty, or it has fewer than 3 words, or it is a pronoun-only reference,
\* or it contains more than 2 question marks.
C10_AmbiguousIffAnyCondition ==
    aq_ret.op = "analyze" =>
        LET query == aq_call.query
            any == \/ aq_call.confidence < CONFIDENCE_THRESHOLD
                   \/ is_blank(query)
                   \/ word_count(query) < 3
                   \/ is_vague_reference(query)
                   \/ query.qmarks > 2
        IN /\ aq_ret.is_ambiguous = any
           /\ aq_ret.needs_clarification = any

\* ---------------------------------------------------------------------
\* C11: for the empty string and for any whitespace-only message (a query
\* with no word and no question mark), analyze_query yields confidence 0
\* and needs_clarification = TRUE, whatever intent and confidence the
\* intent detector returned.
C11_BlankQueryZeroConfidence ==
    (/\ aq_ret.op = "analyze"
     /\ Len(aq_call.query.words) = 0
     /\ aq_call.query.qmarks = 0)
        => /\ aq_ret.confidence = 0
           /\ aq_ret.needs_clarification = TRUE
           /\ aq_ret.is_ambiguous = TRUE

\* A blank query was analysed while the detector was fully confident.
C11_Witness ==
    /\ aq_ret.op = "analyze"
    /\ Len(aq_call.query.words) = 0
    /\ aq_call.query.qmarks = 0
    /\ aq_call.intent = "weather"
    /\ aq_call.confidence >= CONFIDENCE_THRESHOLD
    /\ aq_ret.confidence = 0
    /\ aq_ret.needs_clarification

\* ---------------------------------------------------------------------
\* C20: a message containing a reset phrase in any letter case resets the
\* tracker before it is classified: the reset pushes the current topic, if
\* any, onto the recent ring (dropping the oldest of three) and leaves it
\* unchanged otherwise, the state becomes No-Topic, and the classification
\* that follows starts from No-Topic, so it is a topic-changed transition
\* opening a topic with one message, whatever its label.
C20_ResetBeforeClassification ==
    [][ /\ (ctx_pc = "idle" /\ ctx_pc' # "idle") =>
              (ctx_pc' = "reset" <=> ctx_msg' = <<"New", "TOPIC", "please">>)
        /\ ctx_pc = "reset" =>
              /\ ctx_clock' = ctx_clock
              /\ current_topic' = NoTopic
              /\ Len(current_topics') <= 3
              /\ current_topics' =
                    IF current_topic = NoTopic THEN current_topics
                    ELSE (IF Len(current_topics) = 3 THEN Tail(current_topics)
                          ELSE current_topics) \o <<current_topic>>
        /\ (ctx_clock' # ctx_clock /\ ctx_msg = <<"New", "TOPIC", "please">>) =>
              /\ current_topic = NoTopic
              /\ ctx_log'[Len(ctx_log')].topic_changed
              /\ current_topic'.topic = ctx_log'[Len(ctx_log')].topic
              /\ current_topic'.message_count = 1
              /\ current_topic'.start_time = ctx_clock'
      ]_vars

\* A reset message was classified under the label of the topic the reset
\* had just archived, with the ring full.
C20_Witness ==
    /\ ctx_pc = "idle"
    /\ Len(ctx_log) = 1
    /\ ctx_log[1].topic_changed
    /\ Len(current_topics) = 3
    /\ current_topic # NoTopic
    /\ current_topics[3].topic = current_topic.topic
    /\ current_topic.message_count = 1

(***************************************************************************)
(* Properties of the store                                                 *)
(***************************************************************************)
\* What a user's memory reads as: the summaries and fact lists
\* get_user_memory can return.
MemoryContent(rows, user_id) ==
    {<<m.memory_summary, m.facts>> : m \in get_user_memory_results(rows, user_id)}

\* C16: over any sequence of update_user_memory and clear_user_memory calls
\* every user has at most one user_memory row.  A replace makes the user's
\* memory read as exactly the summary and the fact list it was given, a
\* clear makes it read as the empty summary and the empty fact list, every
\* other step leaves it as it reads, and get_user_memory returns what it
\* reads as; so it returns the most recent replace in full, and the empty
\* memory for a user without a row.
C16_MemoryIsLastReplace ==
    [][\A u \in Users :
          /\ Len(where_user(user_memory', u)) <= 1
          /\ IF mem_ret'.op = "update_user_memory" /\ mem_ret'.arg[1] = u
             THEN MemoryContent(user_memory', u) =
                     {<<mem_ret'.arg[2], mem_ret'.arg[3]>>}
             ELSE IF mem_ret'.op = "clear_user_memory" /\ mem_ret'.arg[1] = u
             THEN /\ where_user(user_memory', u) = <<>>
                  /\ MemoryContent(user_memory', u) = {<<"", <<>> >>}
             ELSE MemoryContent(user_memory', u) = MemoryContent(user_memory, u)
          /\ (mem_ret'.op = "get_user_memory" /\ mem_ret'.arg[1] = u) =>
                /\ user_memory' = user_memory
                /\ MemoryContent(user_memory, u) =
                      {<<mem_ret'.result.memory_summary, mem_ret'.result.facts>>}
                /\ where_user(user_memory, u) = <<>> =>
                      /\ mem_ret'.result.memory_summary = ""
                      /\ mem_ret'.result.facts = <<>>
      ]_vars

\* A user's memory was written in the first second and replaced in the next
\* one by an empty summary with one fact, which is what get_user_memory
\* returned, while the other user's row stayed as it was.
C16_Witness ==
    /\ mem_ret.op = "get_user_memory"
    /\ mem_ret.result.memory_summary = ""
    /\ mem_ret.result.facts = <<"preferred_language: en">>
    /\ mem_ret.result.updated_at = 1
    /\ Len(user_memory) = 2
    /\ user_memory[1].user_id = mem_ret.arg[1]
    /\ user_memory[2].updated_at = 0
    /\ user_memory[2].memory_summary = "likes tea"

\* ---------------------------------------------------------------------
\* C17: after delete_session(s) the session row of s, every message of s
\* and the conversation_context row of s are gone, while the session rows,
\* messages and conversation_context rows of every other session and the
\* user_memory rows of every user are what they were.
C17_DeleteSessionFrame ==
    [][mem_ret'.op = "delete_session" =>
          LET s == mem_ret'.arg[1] IN
          /\ where_session(chat_sessions', s) = <<>>
          /\ where_session(messages', s) = <<>>
          /\ where_session(conversation_context', s) = <<>>
          /\ \A t \in SessionIds \ {s} :
                /\ where_session(chat_sessions', t) = where_session(chat_sessions, t)
                /\ where_session(messages', t) = where_session(messages, t)
                /\ where_session(conversation_context', t) =
                      where_session(conversation_context, t)
          /\ Len(chat_sessions') + Len(where_session(chat_sessions, s))
                = Len(chat_sessions)
          /\ Len(messages') + Len(where_session(messages, s)) = Len(messages)
          /\ Len(conversation_context')
                + Len(where_session(conversation_context, s))
                = Len(conversation_context)
          /\ user_memory' = user_memory
      ]_vars

\* A session with messages was deleted while the other session keeps its
\* row, a message and its topic context, and a user has a memory.
C17_Witness ==
    /\ mem_ret.op = "delete_session"
    /\ uuids = 2
    /\ Len(chat_sessions) = 1
    /\ chat_sessions[1].session_id # mem_ret.arg[1]
    /\ message_seq = 3
    /\ Len(messages) = 1
    /\ messages[1].id = 2
    /\ messages[1].session_id = chat_sessions[1].session_id
    /\ Len(conversation_context) = 1
    /\ conversation_context[1].session_id = chat_sessions[1].session_id
    /\ user_memory # <<>>

\* ---------------------------------------------------------------------
\* C14: get_session_messages(s, K) with K > 0 returns the K most recently
\* appended messages of s, oldest first, messages with equal timestamps in
\* insertion order; a user message and the assistant reply appended right
\* after it in the same second come back user first, assistant second.
C14_LastKInInsertionOrder ==
    (mem_ret.op = "get_session_messages" /\ mem_ret.arg[2] > 0) =>
        LET rows == where_session(messages, mem_ret.arg[1])
            K == mem_ret.arg[2]
            lastK == IF Len(rows) <= K THEN rows
                     ELSE SubSeq(rows, Len(rows) - K + 1, Len(rows))
        IN mem_ret.result = [i \in DOMAIN lastK |-> message_dict(lastK[i])]

(***************************************************************************)
(* Properties of the chat turn                                             *)
(***************************************************************************)
\* The backend returned a reply in the turn that has ended.
ReplyReceived == turn_pc = "done" /\ turn_reply # NoReply

\* C12: whatever reply text the backend returned (an object with a string
\* message, an object without message or with a null or non-string one, a
\* JSON value that is no object, or text that is no JSON), the turn does
\* not fail because of it: unless the database refuses a write, the caller
\* receives a success response, with the string message of a conforming
\* reply and with the raw text and no action for any other reply.
C12_AnyPayloadReachesDone ==
    (ReplyReceived /\ turn_resp.error # "OperationalError") =>
        /\ turn_resp.status = "ok"
        /\ IF turn_reply = "{\"message\": \"It is sunny.\"}"
           THEN turn_resp.message = PyStr("It is sunny.")
           ELSE /\ turn_resp.message = PyStr(turn_reply)
                /\ turn_parsed.action = PyNone

\* C13: once the backend has returned a reply, the caller receives that
\* reply even when saving the user message, the assistant message or the
\* topic context fails: the turn never ends in a failure response.
C13_PersistFailureKeepsReply ==
    ReplyReceived =>
        /\ turn_resp.status = "ok"
        /\ turn_resp.message = turn_parsed.assistant_message

\* C15: a turn submitted without a session id creates a new session, whose
\* id no earlier session or message carries; when the turn succeeds exactly
\* two messages were appended, both under the new session id, the user's
\* message first and the assistant's reply second; when the backend call
\* fails no message was appended.
C15_NewSessionTwoMessages ==
    (/\ turn_pc = "done"
     /\ turn_req.session_id = NoSession
     /\ turn_resp.status = "ok" \/ turn_resp.error = "LLM error") =>
        /\ uuids = turn_before.uuids + 1
        /\ turn_session = uuids
        /\ Len(where_session(chat_sessions, turn_session)) = 1
        /\ where_session(turn_before.messages, turn_session) = <<>>
        /\ turn_resp.error = "LLM error" => messages = turn_before.messages
        /\ turn_resp.status = "ok" =>
              /\ Len(messages) = Len(turn_before.messages) + 2
              /\ SubSeq(messages, 1, Len(turn_before.messages))
                    = turn_before.messages
              /\ LET first == messages[Len(messages) - 1]
                     second == messages[Len(messages)]
                 IN /\ first.session_id = turn_session
                    /\ first.role = "user"
                    /\ first.content = turn_req.message
                    /\ second.session_id = turn_session
                    /\ second.role = "assistant"
                    /\ second.content = turn_parsed.assistant_message.text
                    /\ second.id = first.id + 1

\* A second turn without session id succeeded after a first one had left
\* its two messages under another session.
C15_Witness ==
    /\ turn_pc = "done"
    /\ turn_req.session_id = NoSession
    /\ turn_resp.status = "ok"
    /\ turn_session = 2
    /\ Len(turn_before.messages) = 2
    /\ Len(messages) = 4
    /\ messages[2].session_id = 1
    /\ messages[3].role = "user" /\ messages[4].role = "assistant"

\* ---------------------------------------------------------------------
\* C30: get_correction_context(user) renders at most 5 insights, all of
\* that user, the most frequent ones in non-increasing frequency order,
\* whatever their applied flag, and changes no insight.
\* ---------------------------------------------------------------------

\* The rows of learning_insights that belong to user_id.
InsightsOf(user_id) ==
    {i \in DOMAIN learning_insights :
        learning_insights[i].user_id = user_id}

\* The rows of user_id that the rendered paragraph can stand for.
RenderedFrom(user_id, paragraph) ==
    {i \in InsightsOf(user_id) :
        /\ Prefix(learning_insights[i].pattern, 80) = paragraph.pattern
        /\ Prefix(learning_insights[i].correction, 100) = paragraph.correction
        /\ learning_insights[i].frequency = paragraph.frequency}

\* C30: a get_correction_context step leaves the insight table as it was
\* and returns min(5, n) paragraphs for the user's n insights, each one a
\* distinct insight of that user, in non-increasing frequency order, with
\* no insight left out that is more frequent than a rendered one, applied
\* or not.
C30_ContextIsTopFiveByFrequency ==
    [][fb_ret'.op = "context" =>
         LET user_id == fb_ret'.args[1]
             context == fb_ret'.context
             mine == InsightsOf(user_id)
         IN
         /\ learning_insights' = learning_insights
         /\ Len(context) <= 5
         /\ Len(context) = Min(5, Cardinality(mine))
         /\ \A k \in DOMAIN context : RenderedFrom(user_id, context[k]) # {}
         /\ \A k, l \in DOMAIN context :
               k < l =>
                  /\ context[k].frequency >= context[l].frequency
                  /\ context[k].pattern # context[l].pattern
         /\ \A i \in mine :
               (\A k \in DOMAIN context : i \notin RenderedFrom(user_id, context[k]))
                  => \A k \in DOMAIN context :
                        learning_insights[i].frequency <= context[k].frequency]_vars

\* A user with six insights of different frequencies, one of them already
\* applied to memory and among the five most frequent, gets five paragraphs
\* and the applied insight is one of them.
C30_Witness ==
    /\ fb_ret.op = "context"
    /\ Cardinality(InsightsOf(fb_ret.args[1])) = 6
    /\ Len(fb_ret.context) = 5
    /\ fb_ret.context[1].frequency > fb_ret.context[5].frequency
    /\ \E i \in InsightsOf(fb_ret.args[1]) :
          /\ learning_insights[i].applied_to_memory
          /\ \E k \in DOMAIN fb_ret.context :
                i \in RenderedFrom(fb_ret.args[1], fb_ret.context[k])

\* ---------------------------------------------------------------------
\* C29: query_knowledge returns at most top_k surviving entries, each with
\* similarity >= min_similarity, ranked 1, 2, ... by increasing distance.
\* ---------------------------------------------------------------------

\* 1 / (1 + distance between the entry's own content and the query).
SimilarityTo(content, text) == <<1, 1 + L2(encode(content), encode(text))>>

\* C29: in every state, for every query text, top_k and min_similarity, the
\* result has at most top_k entries; every entry is in knowledge_entries,
\* carries the similarity of its own content to the query, and that
\* similarity is at least min_similarity; the ranks are 1, 2, ... in result
\* order with similarity non-increasing; and the result is the empty list
\* when the index is unavailable or empty.
C29_QueryRanksSurvivingEntries ==
    \A text \in Contents, top_k \in TopKs, min_similarity \in MinSimilarities :
       LET results == query_return(text, top_k, min_similarity) IN
       /\ Len(results) <= top_k
       /\ \A r \in DOMAIN results :
             /\ \E i \in DOMAIN knowledge_entries :
                   /\ knowledge_entries[i].id = results[r].id
                   /\ knowledge_entries[i].content = results[r].content
             /\ results[r].similarity = SimilarityTo(results[r].content, text)
             /\ min_similarity[2] * results[r].similarity[1] >=
                   min_similarity[1] * results[r].similarity[2]
             /\ results[r].rank = r
             /\ r > 1 => results[r - 1].similarity[2] <= results[r].similarity[2]
       /\ (~kb_available \/ Len(knowledge_entries) = 0) => results = <<>>

\* ---------------------------------------------------------------------
\* C28: every ambiguity condition of a query yields its named reason, and
\* the clarifying question belongs to a reported reason.
\* ---------------------------------------------------------------------

\* The reasons the last analysis reported.
ReportedReasons == Range(aq_ret.ambiguity_reasons)

\* C28: after analyze_query or generate_clarifying_question, an empty
\* message is reported as empty_query, a non-empty message of fewer than 3
\* words as too_short, a message that is just one of it, that, this, thing,
\* something as vague_reference, a message with more than 2 question marks
\* as multiple_questions; and the clarifying question, when reasons were
\* reported, is the question of one of them.
C28_EveryConditionGivesItsReason ==
    aq_ret.op \in {"analyze", "clarify"} =>
        LET query == aq_call.query IN
        /\ (Len(query.words) = 0 /\ query.qmarks = 0)
              => "empty_query" \in ReportedReasons
        /\ (~(Len(query.words) = 0 /\ query.qmarks = 0)
              /\ word_count(query) < 3)
              => "too_short" \in ReportedReasons
        /\ (/\ Len(query.words) = 1 /\ query.qmarks = 0
            /\ lower(query.words[1]) \in
                  {"it", "that", "this", "thing", "something"})
              => "vague_reference" \in ReportedReasons
        /\ query.qmarks > 2 => "multiple_questions" \in ReportedReasons
        /\ (aq_ret.op = "clarify" /\ ReportedReasons # {})
              => \E reason \in ReportedReasons :
                    aq_ret.question = reason_question(reason, query)

\* ---------------------------------------------------------------------
\* C26, C27: the transition hint and the context summary a turn computes
\* from the restored tracker state.
\* ---------------------------------------------------------------------

\* C26: when a turn has computed its prompt, a non-empty transition hint
\* means that there are at least 2 recent topics, that the current topic
\* and the topic pushed to the recent topics last (the one that immediately
\* preceded it) differ in label, and that the hint names exactly that shift.
C26_HintNamesTheLastShift ==
    (ctx_prompt.computed /\ ctx_prompt.transition_prompt # NoHint) =>
        /\ Len(current_topics) >= 2
        /\ current_topic # NoTopic
        /\ current_topics[Len(current_topics)].topic # current_topic.topic
        /\ ctx_prompt.transition_prompt.shifted_from =
              current_topics[Len(current_topics)].topic
        /\ ctx_prompt.transition_prompt.shifted_to = current_topic.topic

\* C27: when a turn has computed its prompt and the tracker has a current
\* topic, the summary has a part with the current topic's label and message
\* count and, if there are recent topics, a part with the labels of the
\* last 3 of them; the summary is empty only without a current topic and
\* without recent topics.
C27_SummaryNamesCurrentTopic ==
    ctx_prompt.computed =>
        LET summary == ctx_prompt.context_summary IN
        /\ current_topic # NoTopic =>
              /\ \E k \in DOMAIN summary :
                    /\ summary[k].part = "Current topic"
                    /\ summary[k].labels = <<current_topic.topic>>
                    /\ summary[k].message_count = current_topic.message_count
              /\ current_topics # <<>> =>
                    \E k \in DOMAIN summary :
                       /\ summary[k].part = "Recent topics"
                       /\ Len(summary[k].labels) = Min(3, Len(current_topics))
                       /\ \A i \in DOMAIN summary[k].labels :
                             summary[k].labels[i] =
                                current_topics[Len(current_topics)
                                               - Len(summary[k].labels) + i].topic
        /\ summary = <<>> => (current_topic = NoTopic /\ current_topics = <<>>)

\* ---------------------------------------------------------------------
\* C21: writers to the knowledge base exclude each other and a query sees
\* an entry list and an index of the same length.
\* ---------------------------------------------------------------------

\* Task t is between its first modification and its final persist.
MidWrite(t) == kb_task[t].pc \in {"modified", "indexed"}

\* No two writers are between first modification and final persist at the
\* same time; holds in SpecKBC.
WritersExclusive == \A t, u \in Tasks : (MidWrite(t) /\ MidWrite(u)) => t = u

\* C21: under every interleaving of the requests, no writer modifies the
\* entry list or the index while another writer is between its first
\* modification and its final persist, and a query that searches the index
\* finds as many vectors in it as there are entries.
C21_ExclusiveWritersConsistentQueries ==
    [][/\ WritersExclusive'
       /\ \A t \in Tasks :
             (kb_task'[t] # kb_task[t] /\ kb_task'[t].pc # "idle") =>
                \A u \in Tasks \ {t} : ~MidWrite(u)
       /\ (/\ kb_ret'.op = "query"
           /\ kb_task' = kb_task
           /\ kb_available
           /\ Len(knowledge_entries) > 0)
             => Len(index) = Len(knowledge_entries)]_vars

\* ---------------------------------------------------------------------
\* C22, C23: turns in flight at the same time, for different sessions and
\* for the same session.
\* ---------------------------------------------------------------------

\* The session a step of task t works for.
StepSession(before, after) ==
    IF before.session # NoSession THEN before.session ELSE after.session

\* C22: a step of a turn for one session leaves every other session's
\* messages and stored topic context as they were, and after every step
\* each session's transcript and stored topic context are those of the
\* session run alone, whatever turns of other sessions ran in between.
C22_SessionsIndependent ==
    [][/\ \A t \in Tasks :
             ct_task'[t] # ct_task[t] =>
                \A other \in SessionIds \ {StepSession(ct_task[t], ct_task'[t])} :
                   /\ where_session(messages', other) =
                         where_session(messages, other)
                   /\ where_session(conversation_context', other) =
                         where_session(conversation_context, other)
       /\ \A s \in SessionIds :
             /\ session_transcript(messages', s) = ct_alone'[s].transcript
             /\ saved_context_of(conversation_context', s) = ct_alone'[s].blob]_vars

\* The second turn started, ran for one session and saved its two messages
\* and its context while the first turn, for another session, is still
\* waiting for its reply.
C22_Witness ==
    \E t \in Tasks :
       /\ ct_task[t].pc = "dispatch"
       /\ ct_task[t].n = 1
       /\ ct_count = 2
       /\ \E other \in SessionIds \ {ct_task[t].session} :
             /\ saved_context_of(conversation_context, other).saved
             /\ Len(where_session(messages, other)) = 2

\* C23: whenever no turn of a session is in flight, the stored topic
\* context of the session is the result of applying the transitions of its
\* turns one after the other, in the order in which the turns finished,
\* also when two of them overlapped.
C23_TransitionsAppliedInOrder ==
    \A s \in SessionIds :
       (\A t \in Tasks : ct_task[t].session # s) =>
          saved_context_of(conversation_context, s) = ct_serial[s]

\* ---------------------------------------------------------------------
\* C24: where a turn can fail.
\* ---------------------------------------------------------------------

\* The step ends the turn in flight, or the turn it starts, with an error
\* response.
TurnFails ==
    /\ turn_resp'.status = "error"
    /\ turn_pc' = "done"
    /\ turn_pc # "done" \/ turn_count' # turn_count

\* C24: a turn ends with an error response only in the step that loads the
\* session (a Session Store failure before the backend is called) or in the
\* step that calls the backend; no later step of the turn fails it.
C24_FailsOnlyInLoadOrDispatch ==
    [][TurnFails => (turn_count' # turn_count \/ turn_pc = "dispatch")]_vars

\* ---------------------------------------------------------------------
\* C25: the prompt of a turn and the classification of its message.
\* ---------------------------------------------------------------------

\* The step classifies the message of the turn in flight (update_context).
Classifies == ctx_pc = "loaded" /\ ctx_clock' = ctx_clock + 1

\* C25: the context summary and the transition hint that the turn put into
\* its prompt are those of the tracker as it is once the incoming message
\* has been classified and its transition applied.
C25_PromptReflectsIncomingMessage ==
    [][Classifies =>
         ctx_prompt = turn_prompt(current_topics', current_topic')]_vars

(***************************************************************************)
(* Backend invocations within one chat call                                *)
(***************************************************************************)
CallsTo(b) == Cardinality({i \in DOMAIN llm_calls : llm_calls[i].backend = b})

\* C34: within a single chat call each backend is invoked at most once, also
\* in auto mode when the primary fails with a connectivity error and the
\* secondary then fails as well.
C34_EachBackendAtMostOnce ==
    /\ CallsTo("groq") <= 1
    /\ CallsTo("ollama") <= 1

(***************************************************************************)
(* The persisted reply and the returned reply                              *)
(***************************************************************************)
\* The turn that has ended answered with a success response.
TurnSucceeded == turn_pc = "done" /\ turn_resp.status = "ok"

\* C38: for every successful turn the assistant message persisted in the
\* session (the last row of the session, written by this turn) has the text
\* of the reply message returned to the caller, also when the structured
\* reply names an action that is executed.
C38_PersistedReplyIsReturnedReply ==
    TurnSucceeded =>
        LET rows == where_session(messages, turn_session)
            last == rows[Len(rows)]
        IN /\ rows # <<>>
           /\ last.role = "assistant"
           /\ last.content = turn_resp.message.text

(***************************************************************************)
(* Termination of a turn                                                   *)
(***************************************************************************)
\* The places of LLMClient.chat that send a request to a backend: the
\* routed _chat_groq, the routed _chat_ollama, the fallback inside
\* _chat_groq and the fallback of chat.
BackendCallSites == {"groq", "ollama_direct", "ollama_inner", "ollama_outer"}

\* A backend request has been routed and its outcome is awaited.
ChatRunning == llm_pc \in BackendCallSites

\* The turn was accepted and has not answered yet.
TurnRunning == turn_pc \notin {"idle", "done"}

\* The turn has ended: Done is a success response, Failed an error response.
TurnEnded == turn_pc = "done" /\ turn_resp.status \in {"ok", "error"}

\* C33: every turn eventually reaches Done or Failed: chat performs
\* finitely many backend invocations (no more than it has places that
\* call a backend) and then returns an envelope or raises, and the route
\* then answers with the reply or with a failure.
C33_EveryTurnEnds ==
    /\ [](Len(llm_calls) <= Cardinality(BackendCallSites))
    /\ ChatRunning ~> (llm_pc = "done" /\ llm_ret # NoRet)
    /\ TurnRunning ~> TurnEnded

\* A turn is answered after the primary and both fallback calls of the
\* secondary were made.
C33_Witness ==
    /\ TurnEnded
    /\ Len(llm_calls) = 3

(***************************************************************************)
(* Alignment of the vectors with the entries                               *)
(***************************************************************************)
\* C35: after any sequence of add, delete and clear, the index has one
\* vector per surviving entry and, for every position i, the i-th vector is
\* the embedding of the i-th entry's content; so the similarity a query
\* reports for an entry is the one of that entry's own vector, never the
\* one of a deleted entry's vector.
C35_VectorIsEmbeddingOfItsEntry ==
    /\ DOMAIN index = DOMAIN knowledge_entries
    /\ \A i \in DOMAIN index :
          index[i] = encode(knowledge_entries[i].content)
    /\ \A text \in Contents, top_k \in TopKs, min_similarity \in MinSimilarities :
          LET results == query_return(text, top_k, min_similarity) IN
          \A r \in DOMAIN results :
             \E i \in DOMAIN knowledge_entries :
                /\ knowledge_entries[i].id = results[r].id
                /\ i \in DOMAIN index
                /\ results[r].similarity = <<1, 1 + L2(index[i], encode(text))>>

(***************************************************************************)
(* The two files of the knowledge base                                     *)
(***************************************************************************)
\* C31: knowledge.json and knowledge.index are in lockstep after every
\* mutation: after any sequence of add, delete and clear followed by a
\* restart that reloads both files, there are as many loaded vectors as
\* loaded entries and every loaded vector is the embedding of the loaded
\* entry at the same position.
C31_FilesReloadInLockstep ==
    (kb_available /\ kb_ret.op = "restart") =>
        /\ knowledge_entries = json_load(knowledge_file)
        /\ Len(index) = Len(knowledge_entries)
        /\ \A i \in DOMAIN index :
              index[i] = encode(knowledge_entries[i].content)

(***************************************************************************)
(* Saving and restoring the tracker                                        *)
(***************************************************************************)
\* The tracker the next request would restore from the session's row.
RestoredTracker ==
    context_from_dict(saved_context_of(rt_rows, RtSession), rt_clock + 1)

\* C32: to_dict followed by from_dict into a fresh tracker preserves the
\* recent-topics ring (order, labels, confidences, message counters, kept
\* messages, times) and the current topic, so turns with a save and a
\* restore between them give the same ring, the same current topic and the
\* same topic-changed flags as the same turns on one tracker in memory.
C32_RestoreEqualsInMemory ==
    /\ RestoredTracker.ring = rt_tracker.ring
    /\ RestoredTracker.cur = rt_tracker.cur
    /\ rt_flags.restored = rt_flags.in_memory

\* After four turns the ring holds two topics and the current topic has
\* counted a second message.
C32_Witness ==
    /\ rt_clock = 4
    /\ Len(rt_tracker.ring) = 2
    /\ rt_tracker.cur # NoTopic
    /\ rt_tracker.cur.message_count = 2
    /\ rt_rows # <<>>

(***************************************************************************)
(* A turn whose backend call failed                                        *)
(***************************************************************************)
\* The turn that has ended failed because llm_client.chat raised.
DispatchFailed == turn_pc = "done" /\ turn_resp.error = "LLM error"

\* C36: a turn that fails because the backend call failed leaves the
\* session's durable state as it was before the turn: the messages stored
\* for the session and the session's row of conversation_context are
\* unchanged, also when the incoming message held a reset phrase.
C36_FailedDispatchLeavesSessionUntouched ==
    DispatchFailed =>
        /\ where_session(messages, turn_session) =
              where_session(turn_before.messages, turn_session)
        /\ where_session(conversation_context, turn_session) =
              where_session(turn_before.conversation_context, turn_session)

(***************************************************************************)
(* References from messages and context rows to sessions                   *)
(***************************************************************************)
\* The session table has a row for the session id.
SessionExists(session_id) ==
    \E i \in DOMAIN chat_sessions : chat_sessions[i].session_id = session_id

\* C37: after any sequence of turns, with or without a session id supplied
\* by the caller, and of session deletions, every stored message and every
\* stored row of conversation_context names a session that is in the
\* session table.
C37_RowsReferenceExistingSessions ==
    /\ \A i \in DOMAIN messages : SessionExists(messages[i].session_id)
    /\ \A i \in DOMAIN conversation_context :
          SessionExists(conversation_context[i].session_id)
====
